---- MODULE Spec2Model ----
(***************************************************************************)
(* Model of the sentiment-to-strategy engine of the Miles Edgeworth chat   *)
(* (lib/my-lawyer/sentiment: analyzeTextScore, analyzeSentiment,           *)
(* getMoodFromScore, getStrategyFromMood) and of the request flow that     *)
(* feeds it.                                                               *)
(*                                                                         *)
(* A JavaScript string is modelled as a sequence of one-character strings, *)
(* so that toLowerCase, String.includes and the regular expressions are    *)
(* computed character by character.                                        *)
(***************************************************************************)
EXTENDS Integers, Sequences, FiniteSets, TLC

VARIABLES
  text,        \* the current utterance (argument `text`)
  history,     \* argument `history`: [defined |-> BOOLEAN, msgs |-> sequence of entries]
  textScore,   \* last value returned by analyzeTextScore(text), or NoValue
  result,      \* last value returned by analyzeSentiment(text, history), or NoResult
  memo,        \* one earlier call of analyzeSentiment kept for comparison, or NoCall
  \* POST /api/my-lawyer/chat
  request,     \* the request being handled: [parsed, query, history], or NoRequest
  sentiment,   \* const sentiment of the handler, or NoResult
  response,    \* the response returned: [status, error], or NoResponse
  postPc,      \* where the handler stands: "idle", "loading" (awaiting persona, bio, chat), "done"
  reply,       \* mood, isObjection and text of the JSON body returned, or NoReply
  llmResult,   \* what the call of the hosted model did for this request, or NoLlm
  apiKey,      \* process.env.NVIDIA_API_KEY is set
  dataFiles,   \* the data directory of the deployment: "ok", "no data dir", "no documents"
  \* ChatBox attachments (upload button, drop zone)
  attachments, \* ChatBox state `attachments`: sequence of [id, size, status]
  inFlight,    \* the upload handlers suspended at `await Promise.all(...)`, with their closures
  started,     \* number of batches handed to an upload handler so far
  validation,  \* arguments and result of the last validateFiles call, or NoValidation
  disabled,    \* prop `disabled={isLoading}` of UploadButton and FileUploadZone
  \* POST /api/my-lawyer/fetch-link
  linkRequest, \* the request being handled: [parsed, isNull, url], or NoLinkRequest
  linkFetch,   \* the argument of the outbound fetch(url) of this request, or NoFetch
  linkResponse,\* the response returned: [status, error], or NoResponse
  linkPc,      \* "idle", "fetching" (awaiting the outbound fetch), "done"
  fetches,     \* number of outbound fetches made so far
  \* Courtroom
  messages,    \* state `messages` after the welcome message: sequence of [isUser, req]
  spriteMood,  \* state `mood` (the mood of the sprite)
  isLoading,   \* state `isLoading`
  isPaused,    \* state `isPaused` (pausedResponse is set with it)
  showObjection,     \* state `showObjection`
  abortController,   \* abortControllerRef.current: the request it was made for, or 0 (null)
  moodResetTimeout,  \* moodResetTimeoutRef.current: a timer id, or NoTimer
  objectionTimeout,  \* objectionTimeoutRef.current: a timer id, or NoTimer
  timers,      \* the setTimeout callbacks not yet run nor cleared
  pendingFetch,\* the requests whose fetch("/api/my-lawyer/chat") has not settled
  sent,        \* number of messages sent so far; the last one is request `sent`
  paused,      \* the requests the user paused
  actor,       \* the request whose callback made the last step, 0 for a user event
  \* useSpriteAnimation
  sprite,           \* prop `sprite.src` of useSpriteAnimation at the last render
  currentSprite,    \* state `currentSprite`
  nextSprite,       \* state `nextSprite`: a sprite path, or NoSprite (null)
  opacity,          \* state `opacity`: 0 or 1
  isTransitioning,  \* state `isTransitioning`
  transitionTimeout,\* the pending timeout of transitionTimeoutRef: the sprite.src its closure holds, or NoSprite
  previousSprite,   \* previousSpriteRef.current
  spriteChanges,    \* number of changes of the sprite prop so far
  \* LLMWarmup
  warmupDone,    \* sessionStorage holds WARMUP_KEY
  warmupMounted, \* LLMWarmup is mounted in the current page
  warmupTimer,   \* the timeout of setTimeout(warmupLLM, 1000) is pending
  warmupAwaiting,\* number of warmupLLM calls of the current page suspended at `await fetch`
  warmupSent,    \* number of requests sent to /api/my-lawyer/warmup in this session
  warmupMounts,  \* number of mounts of LLMWarmup in this session
  \* chat(): the messages array
  llmHistory,  \* argument `history` of chat(): sequence of [role, content]
  llmQuery,    \* argument `query` of chat(), or NoValue before the call
  llmMessages, \* the array `messages` posted to the hosted model, <<>> before the call
  \* useTypewriter
  typed,         \* prop `text` of useTypewriter at the last render
  displayText,   \* state `displayText`
  isComplete,    \* state `isComplete`
  interval,      \* the setInterval of the last effect: [active, text, currentIndex] of its closure
  effectPending, \* the last render changed `text` and its effect has not run yet
  textChanges,   \* number of changes of the text prop so far
  \* ChatBox link preview
  inputValue,       \* ChatBox state `input`
  detectedUrl,      \* ChatBox state `detectedUrl`: a URL, or NoUrl (null)
  linkPreview,      \* ChatBox state `linkPreview`: [url, status], or NoPreview (null)
  linkFetchTimeout, \* the pending timeout of linkFetchTimeoutRef: the newUrl of its closure, or NoUrl
  previewFetches,   \* the fetchLinkPreview calls not settled yet: set of [url, id]
  submitted,        \* text and link context of the last onSendMessage, or NoSubmit
  inputChanges      \* number of change events of the input so far

sentimentVars == <<text, history, textScore, result, memo>>

chatVars == <<request, sentiment, response, postPc, reply, llmResult, apiKey, dataFiles>>

fileVars == <<attachments, inFlight, started, validation, disabled>>

linkVars == <<linkRequest, linkFetch, linkResponse, linkPc, fetches>>

courtVars ==
  <<messages, spriteMood, isLoading, isPaused, showObjection, abortController, moodResetTimeout,
    objectionTimeout, timers, pendingFetch, sent, paused, actor>>

spriteVars == <<sprite, currentSprite, nextSprite, opacity, isTransitioning, transitionTimeout,
    previousSprite, spriteChanges>>

warmupVars == <<warmupDone, warmupMounted, warmupTimer, warmupAwaiting, warmupSent, warmupMounts>>

llmVars == <<llmHistory, llmQuery, llmMessages>>

typewriterVars == <<typed, displayText, isComplete, interval, effectPending, textChanges>>

previewVars == <<inputValue, detectedUrl, linkPreview, linkFetchTimeout, previewFetches, submitted,
    inputChanges>>

vars ==
  <<sentimentVars, chatVars, fileVars, linkVars,
    courtVars, spriteVars, warmupVars, llmVars, typewriterVars, previewVars>>

\* the variables the operations of one part leave alone
outsideSentiment ==
  <<chatVars, fileVars, linkVars, courtVars,
    spriteVars, warmupVars, llmVars, typewriterVars, previewVars>>

outsideChat ==
  <<sentimentVars, fileVars, linkVars, courtVars,
    spriteVars, warmupVars, llmVars, typewriterVars, previewVars>>

outsideFiles ==
  <<sentimentVars, chatVars, linkVars, courtVars,
    spriteVars, warmupVars, llmVars, typewriterVars, previewVars>>

outsideLink ==
  <<sentimentVars, chatVars, fileVars, courtVars,
    spriteVars, warmupVars, llmVars, typewriterVars, previewVars>>

outsideCourt ==
  <<sentimentVars, chatVars, fileVars, linkVars,
    spriteVars, warmupVars, llmVars, typewriterVars, previewVars>>

outsideSprite ==
  <<sentimentVars, chatVars, fileVars, linkVars,
    courtVars, warmupVars, llmVars, typewriterVars, previewVars>>

outsideWarmup ==
  <<sentimentVars, chatVars, fileVars, linkVars,
    courtVars, spriteVars, llmVars, typewriterVars, previewVars>>

outsideLlm ==
  <<sentimentVars, chatVars, fileVars, linkVars,
    courtVars, spriteVars, warmupVars, typewriterVars, previewVars>>

outsideTypewriter ==
  <<sentimentVars, chatVars, fileVars, linkVars,
    courtVars, spriteVars, warmupVars, llmVars, previewVars>>

outsidePreview ==
  <<sentimentVars, chatVars, fileVars, linkVars,
    courtVars, spriteVars, warmupVars, llmVars, typewriterVars>>

----------------------------------------------------------------------------
(* Characters and strings *)

UpperChars == <<"A","B","C","D","E","F","G","H","I","J","K","L","M","N","O","P","Q","R","S","T","U","V","W","X","Y","Z">>
LowerChars == <<"a","b","c","d","e","f","g","h","i","j","k","l","m","n","o","p","q","r","s","t","u","v","w","x","y","z">>
DigitChars == <<"0","1","2","3","4","5","6","7","8","9">>

Range(s) == {s[k] : k \in 1..Len(s)}

\* [A-Z]
isUpper(c) == c \in Range(UpperChars)

\* \w of the regular expressions: [A-Za-z0-9_]
isWordChar(c) ==
  \/ c \in Range(UpperChars)
  \/ c \in Range(LowerChars)
  \/ c \in Range(DigitChars)
  \/ c = "_"

\* String.prototype.toLowerCase on one character: only A-Z change
toLowerCaseChar(c) ==
  IF isUpper(c)
    THEN LowerChars[CHOOSE k \in 1..Len(UpperChars) : UpperChars[k] = c]
    ELSE c

\* String.prototype.toLowerCase
toLowerCase(s) == [k \in 1..Len(s) |-> toLowerCaseChar(s[k])]

\* variant: w must stand in s as a whole word (token matching)
includesWholeWord(s, w) ==
  \E p \in 1..(Len(s) - Len(w) + 1) :
    /\ SubSeq(s, p, p + Len(w) - 1) = w
    /\ p = 1 \/ ~isWordChar(s[p - 1])
    /\ p + Len(w) > Len(s) \/ ~isWordChar(s[p + Len(w)])

\* String.prototype.includes: w occurs in s as a contiguous substring
includes(s, w) ==
  \E p \in 1..(Len(s) - Len(w) + 1) : SubSeq(s, p, p + Len(w) - 1) = w

----------------------------------------------------------------------------
(* The three lexicons *)

\* ANGER_WORDS (lines 486-503)
ANGER_WORDS ==
  << <<"s","t","u","p","i","d">>,
     <<"w","r","o","n","g">>,
     <<"d","i","s","a","g","r","e","e">>,
     <<"h","a","t","e">>,
     <<"t","e","r","r","i","b","l","e">>,
     <<"u","s","e","l","e","s","s">>,
     <<"b","a","d">>,
     <<"w","o","r","s","t">>,
     <<"a","w","f","u","l">>,
     <<"r","i","d","i","c","u","l","o","u","s">>,
     <<"n","o","n","s","e","n","s","e">>,
     <<"g","a","r","b","a","g","e">>,
     <<"t","r","a","s","h">>,
     <<"l","i","a","r">>,
     <<"f","a","k","e">>,
     <<"s","c","a","m">> >>

\* SKEPTICAL_PHRASES (lines 508-525)
SKEPTICAL_PHRASES ==
  << <<"i"," ","d","o","n","'","t"," ","t","h","i","n","k">>,
     <<"i"," ","d","o","n","t"," ","t","h","i","n","k">>,
     <<"t","h","a","t","'","s"," ","n","o","t"," ","t","r","u","e">>,
     <<"t","h","a","t","s"," ","n","o","t"," ","t","r","u","e">>,
     <<"p","r","o","v","e"," ","i","t">>,
     <<"n","o","t"," ","c","o","n","v","i","n","c","e","d">>,
     <<"i"," ","d","o","u","b","t">>,
     <<"u","n","l","i","k","e","l","y">>,
     <<"h","a","r","d"," ","t","o"," ","b","e","l","i","e","v","e">>,
     <<"s","h","o","w"," ","m","e"," ","p","r","o","o","f">>,
     <<"y","e","a","h"," ","r","i","g","h","t">>,
     <<"s","u","r","e",".",".",".">>,
     <<"r","e","a","l","l","y","?">>,
     <<"a","r","e"," ","y","o","u"," ","s","u","r","e">>,
     <<"i","'","m"," ","n","o","t"," ","s","u","r","e">>,
     <<"i","m"," ","n","o","t"," ","s","u","r","e">> >>

\* POSITIVE_WORDS (lines 530-547)
POSITIVE_WORDS ==
  << <<"g","r","e","a","t">>,
     <<"a","w","e","s","o","m","e">>,
     <<"e","x","c","e","l","l","e","n","t">>,
     <<"a","m","a","z","i","n","g">>,
     <<"i","m","p","r","e","s","s","i","v","e">>,
     <<"w","o","n","d","e","r","f","u","l">>,
     <<"f","a","n","t","a","s","t","i","c">>,
     <<"l","o","v","e">>,
     <<"t","h","a","n","k">>,
     <<"t","h","a","n","k","s">>,
     <<"p","l","e","a","s","e">>,
     <<"i","n","t","e","r","e","s","t","i","n","g">>,
     <<"c","o","o","l">>,
     <<"n","i","c","e">>,
     <<"g","o","o","d">>,
     <<"h","e","l","p","f","u","l">> >>

----------------------------------------------------------------------------
(* Regular expressions of analyzeTextScore *)

Max(S) == CHOOSE x \in S : \A y \in S : y <= x

\* variant: both punctuation patterns repeat the class [!?]
inClassEitherMark(pat, c) ==
  CASE pat = "caps" -> isUpper(c)
    [] pat = "excl" -> c \in {"!", "?"}
    [] pat = "ques" -> c \in {"!", "?"}

\* The character class each pattern repeats:
\*   "caps" is /\b[A-Z]{3,}\b/g, "excl" is /!{2,}/g, "ques" is /\?{2,}/g
inClass(pat, c) ==
  CASE pat = "caps" -> isUpper(c)
    [] pat = "excl" -> c = "!"
    [] pat = "ques" -> c = "?"

\* variant: one punctuation character is enough (/!+/, /\?+/)
minRepeatOnce(pat) == IF pat = "caps" THEN 3 ELSE 1

\* the lower bound of the quantifier: {3,} or {2,}
minRepeat(pat) == IF pat = "caps" THEN 3 ELSE 2

\* \b before position p: exactly one of s[p-1], s[p] is a word character
wordBoundary(s, p) ==
  (p > 1 /\ isWordChar(s[p - 1])) # (p <= Len(s) /\ isWordChar(s[p]))

\* whether the pattern is anchored by \b on both sides
anchored(pat) == pat = "caps"

RECURSIVE runEnd(_, _, _)
\* greedy quantifier: the position after the longest run of class characters from p
runEnd(pat, s, p) ==
  IF p <= Len(s) /\ inClass(pat, s[p]) THEN runEnd(pat, s, p + 1) ELSE p

\* one match attempt at p: the position after the match, or 0 when there is none.
\* The quantifier is greedy and backtracks to a shorter run if the trailing \b fails.
matchEnd(pat, s, p) ==
  LET ends == {q \in (p + minRepeat(pat))..runEnd(pat, s, p) :
                 anchored(pat) => wordBoundary(s, q)}
  IN IF (anchored(pat) => wordBoundary(s, p)) /\ ends # {}
       THEN Max(ends)
       ELSE 0

RECURSIVE matchCount(_, _, _)
\* (s.match(/pat/g) || []).length: the matches found scanning left to right
\* from p, each scan resuming after the previous match
matchCount(pat, s, p) ==
  IF p > Len(s) THEN 0
  ELSE LET e == matchEnd(pat, s, p)
       IN IF e > 0 THEN 1 + matchCount(pat, s, e)
                   ELSE matchCount(pat, s, p + 1)

----------------------------------------------------------------------------
(* analyzeTextScore *)

RECURSIVE forLexicon(_, _, _, _, _)
\* for (const word of lexicon) if (lower.includes(word)) score += delta;
\* k is the next element visited
forLexicon(lower, lexicon, delta, k, score) ==
  IF k > Len(lexicon) THEN score
  ELSE forLexicon(lower, lexicon, delta, k + 1,
                  IF includes(lower, lexicon[k]) THEN score + delta ELSE score)

\* variant: the shouting pattern applied to the lower-cased text
analyzeTextScoreCapsOnLower(t) ==
  LET lower == toLowerCase(t)
      afterAnger == forLexicon(lower, ANGER_WORDS, 15, 1, 0)
      afterSkeptical == forLexicon(lower, SKEPTICAL_PHRASES, 10, 1, afterAnger)
      afterPositive == forLexicon(lower, POSITIVE_WORDS, -8, 1, afterSkeptical)
      capsWords == matchCount("caps", lower, 1)
      multiExclamation == matchCount("excl", t, 1)
      multiQuestion == matchCount("ques", t, 1)
  IN afterPositive + capsWords * 12 + (multiExclamation + multiQuestion) * 8

analyzeTextScore(t) ==
  LET lower == toLowerCase(t)
      afterAnger == forLexicon(lower, ANGER_WORDS, 15, 1, 0)
      afterSkeptical == forLexicon(lower, SKEPTICAL_PHRASES, 10, 1, afterAnger)
      afterPositive == forLexicon(lower, POSITIVE_WORDS, -8, 1, afterSkeptical)
      capsWords == matchCount("caps", t, 1)
      multiExclamation == matchCount("excl", t, 1)
      multiQuestion == matchCount("ques", t, 1)
  IN afterPositive + capsWords * 12 + (multiExclamation + multiQuestion) * 8

----------------------------------------------------------------------------
(* Numbers.  totalScore is a double in the source; every value it takes is *)
(* a sum of integers times powers of 0.6 = 3/5, kept here as an exact      *)
(* fraction num/den with den > 0.  Such a sum is never closer to a half    *)
(* integer than 1/(2*den), far more than the rounding error of a double,   *)
(* so Math.round gives the same integer on the fraction and on the double. *)

RECURSIVE GCD(_, _)
GCD(a, b) == IF b = 0 THEN a ELSE GCD(b, a % b)

Abs(n) == IF n < 0 THEN -n ELSE n

\* the fraction n/d in lowest terms
Frac(n, d) ==
  LET g == GCD(Abs(n), d)
  IN [num |-> n \div g, den |-> d \div g]

FracInt(n) == [num |-> n, den |-> 1]

FracAdd(a, b) == Frac(a.num * b.den + b.num * a.den, a.den * b.den)

FracMul(a, b) == Frac(a.num * b.num, a.den * b.den)

RECURSIVE MathPow(_, _)
\* Math.pow(base, e) for an integer e >= 0
MathPow(base, e) == IF e = 0 THEN FracInt(1) ELSE FracMul(base, MathPow(base, e - 1))

\* Math.round: the nearest integer, halves rounded towards +Infinity
MathRound(a) == (2 * a.num + a.den) \div (2 * a.den)

MathMin(a, b) == IF a < b THEN a ELSE b

MathMax(a, b) == IF a > b THEN a ELSE b

----------------------------------------------------------------------------
(* analyzeSentiment *)

\* variant: a decay factor of one half
decayFactorHalf == [num |-> 1, den |-> 2]

\* const decayFactor = 0.6
decayFactor == [num |-> 3, den |-> 5]

\* variant: the NEUTRAL band starts above 20 instead of at 20
getMoodFromScoreStrict(score) ==
  IF score >= 70 THEN "HOSTILE"
  ELSE IF score >= 40 THEN "SKEPTICAL"
  ELSE IF score > 20 THEN "NEUTRAL"
  ELSE "POSITIVE"

getMoodFromScore(score) ==
  IF score >= 70 THEN "HOSTILE"
  ELSE IF score >= 40 THEN "SKEPTICAL"
  ELSE IF score >= 20 THEN "NEUTRAL"
  ELSE "POSITIVE"

\* variant: the strategies of the two extreme moods exchanged
getStrategyFromMoodSwapped(mood) ==
  CASE mood = "POSITIVE" -> "YIELDING"
    [] mood = "NEUTRAL" -> "ASSERTIVE"
    [] mood = "SKEPTICAL" -> "DIPLOMATIC"
    [] mood = "HOSTILE" -> "AGGRESSIVE"
    [] OTHER -> "ASSERTIVE"

getStrategyFromMood(mood) ==
  CASE mood = "POSITIVE" -> "AGGRESSIVE"
    [] mood = "NEUTRAL" -> "ASSERTIVE"
    [] mood = "SKEPTICAL" -> "DIPLOMATIC"
    [] mood = "HOSTILE" -> "YIELDING"
    [] OTHER -> "ASSERTIVE"

\* variant: every entry kept, whatever its role
filterUserKeepAll(msgs) == msgs

\* variant: the entries of the other role kept
filterUserInverted(msgs) == SelectSeq(msgs, LAMBDA m : m.role # "user")

\* history.filter((m) => m.role === "user"): a new array, history is not touched
filterUser(msgs) == SelectSeq(msgs, LAMBDA m : m.role = "user")

\* variant: every historical turn decayed at least once
weightOfDecayAll(userMessages, i) ==
  LET messageAge == Len(userMessages) - 1 - i
  IN MathPow(decayFactor, Len(userMessages) - messageAge)

\* the weight the loop gives to userMessages[i] (i counted from 0)
weightOf(userMessages, i) ==
  LET messageAge == Len(userMessages) - 1 - i
  IN MathPow(decayFactor, Len(userMessages) - 1 - messageAge)

RECURSIVE forUserMessages(_, _, _)
\* for (let i = 0; i < userMessages.length; i++) totalScore += messageScore * weight
forUserMessages(userMessages, i, totalScore) ==
  IF ~(i < Len(userMessages)) THEN totalScore
  ELSE LET weight == weightOf(userMessages, i)
           messageScore == analyzeTextScore(userMessages[i + 1].content)
       IN forUserMessages(userMessages, i + 1,
                          FracAdd(totalScore, FracMul(FracInt(messageScore), weight)))

\* totalScore just before it is rounded and clamped
weightedTotal(t, h) ==
  LET afterHistory ==
        IF h.defined /\ Len(h.msgs) > 0
          THEN forUserMessages(filterUser(h.msgs), 0, FracInt(0))
          ELSE FracInt(0)
  IN FracAdd(afterHistory, FracInt(analyzeTextScore(t)))

\* variant: the rounded total returned without clamping
analyzeSentimentUnclamped(t, h) ==
  LET finalScore == MathRound(weightedTotal(t, h))
      mood == getMoodFromScore(finalScore)
      strategy == getStrategyFromMood(mood)
  IN [mood |-> mood, score |-> finalScore, strategy |-> strategy]

\* variant: the total truncated downwards instead of rounded
floorThenClamp(totalScore) ==
  MathMax(0, MathMin(totalScore.num \div totalScore.den, 100))

\* Math.max(0, Math.min(Math.round(totalScore), 100))
roundThenClamp(totalScore) == MathMax(0, MathMin(MathRound(totalScore), 100))

analyzeSentiment(t, h) ==
  LET totalScore == weightedTotal(t, h)
      finalScore == roundThenClamp(totalScore)
      mood == getMoodFromScore(finalScore)
      strategy == getStrategyFromMood(mood)
  IN [mood |-> mood, score |-> finalScore, strategy |-> strategy]

----------------------------------------------------------------------------
(* Bounds and the inputs of the model *)

\* longest history passed to analyzeSentiment in Spec
MaxHist == 3

\* longest history passed to analyzeSentiment in SpecRepeat
MaxRepeatHist == 1

\* number of fragments an utterance of SpecScorer is typed from
MaxTokens == 3

EmptyText == <<>>
TextBad == <<"b","a","d">>
TextThanks == <<"t","h","a","n","k","s">>
TextTerrible == <<"T","h","i","s"," ","i","s"," ","t","e","r","r","i","b","l","e"," ","a","n","d"," ","s","t","u","p","i","d","!","!">>
TextDoubt == <<"I"," ","d","o","n","'","t"," ","t","h","i","n","k"," ","t","h","a","t","'","s"," ","t","r","u","e",","," ","p","r","o","v","e"," ","i","t">>
TextBadge == <<"b","a","d","g","e">>
TextGarbage == <<"G","A","R","B","A","G","E"," ","L","I","A","R"," ","S","C","A","M">>

\* message texts of the conversations of Spec and SpecRepeat
Contents == {TextBad, TextThanks, TextGarbage}

Roles == {"user", "assistant"}

\* fragments the utterances of SpecScorer are typed from
Tokens ==
  { <<"b","a","d">>,
    <<"B","A","D">>,
    <<"t","h","a","n","k","s">>,
    <<"r","e","a","l","l","y","?">>,
    <<"!","!">>,
    <<"!">>,
    <<"?">>,
    <<" ">> }

RECURSIVE Flatten(_)
Flatten(ts) == IF ts = <<>> THEN <<>> ELSE Head(ts) \o Flatten(Tail(ts))

Utterances ==
  {Flatten(ts) : ts \in UNION {[1..k -> Tokens] : k \in 0..MaxTokens}}
    \cup {TextTerrible, TextGarbage, TextBadge}

AbsentHistory == [defined |-> FALSE, msgs |-> <<>>]
EmptyHistory == [defined |-> TRUE, msgs |-> <<>>]

NoValue == [set |-> FALSE, value |-> 0]
NoResult == [mood |-> "none", score |-> -1, strategy |-> "none"]
NoCall == [text |-> EmptyText, history |-> AbsentHistory, result |-> NoResult]

----------------------------------------------------------------------------
(* Values of the chat route *)

\* a JavaScript value of the request body: kind is "undefined", "null",
\* "number", "object" or "string"
JsUndefined == [kind |-> "undefined", num |-> 0, str |-> <<>>]
JsNull == [kind |-> "null", num |-> 0, str |-> <<>>]
JsEmptyObject == [kind |-> "object", num |-> 0, str |-> <<>>]
JsNumber(n) == [kind |-> "number", num |-> n, str |-> <<>>]
JsString(s) == [kind |-> "string", num |-> 0, str |-> s]

NoRequest == [parsed |-> FALSE, query |-> JsUndefined, history |-> AbsentHistory]
NoResponse == [status |-> 0, error |-> "none"]

NoReply == [text |-> <<>>, mood |-> "none", isObjection |-> FALSE]
NoLlm == [ok |-> FALSE, moodTag |-> "none", cleanText |-> <<>>]

HandlerIdle ==
  /\ request = NoRequest
  /\ sentiment = NoResult
  /\ response = NoResponse
  /\ postPc = "idle"
  /\ reply = NoReply
  /\ llmResult = NoLlm

\* a deployment with its key and its data files
ChatIdle ==
  /\ HandlerIdle
  /\ apiKey = TRUE
  /\ dataFiles = "ok"

(* ChatBox attachments: the values before any file is chosen. *)
NoValidation == [files |-> <<>>, existingFiles |-> <<>>, valid |-> <<>>, errors |-> <<>>]

FilesIdle ==
  /\ attachments = <<>>
  /\ inFlight = {}
  /\ started = 0
  /\ validation = NoValidation
  /\ disabled = FALSE

(* POST /api/my-lawyer/fetch-link: the values before any request. *)
NoLinkRequest == [parsed |-> FALSE, isNull |-> FALSE, url |-> JsUndefined]
NoFetch == [made |-> FALSE, url |-> <<>>]

LinkIdle ==
  /\ linkRequest = NoLinkRequest
  /\ linkFetch = NoFetch
  /\ linkResponse = NoResponse
  /\ linkPc = "idle"
  /\ fetches = 0

(* Courtroom: the state after mount.  A timer id is [kind, req, index]. *)
NoTimer == [kind |-> "none", req |-> 0, index |-> 0]

CourtIdle ==
  /\ messages = <<>>
  /\ spriteMood = "IDLE"
  /\ isLoading = FALSE
  /\ isPaused = FALSE
  /\ showObjection = FALSE
  /\ abortController = 0
  /\ moodResetTimeout = NoTimer
  /\ objectionTimeout = NoTimer
  /\ timers = {}
  /\ pendingFetch = {}
  /\ sent = 0
  /\ paused = {}
  /\ actor = 0

(* useSpriteAnimation: the state after the first render with the idle sprite. *)
NoSprite == "null"

Sprites == {"thinking.gif", "presenting_normally.gif", "objection.gif", "smirking.gif"}

mounted(src) ==
  /\ sprite = src
  /\ currentSprite = src
  /\ nextSprite = NoSprite
  /\ opacity = 1
  /\ isTransitioning = FALSE
  /\ transitionTimeout = NoSprite
  /\ previousSprite = src
  /\ spriteChanges = 0

SpriteIdle == mounted("thinking.gif")

(* LLMWarmup: a new browser session, nothing mounted yet. *)
WarmupIdle ==
  /\ warmupDone = FALSE
  /\ warmupMounted = FALSE
  /\ warmupTimer = FALSE
  /\ warmupAwaiting = 0
  /\ warmupSent = 0
  /\ warmupMounts = 0

(* ChatBox link preview: an empty input. *)
NoUrl == <<>>

NoPreview == [url |-> NoUrl, status |-> "null"]

NoSubmit == [sent |-> FALSE, text |-> <<>>, context |-> NoUrl]

PreviewIdle ==
  /\ inputValue = <<>>
  /\ detectedUrl = NoUrl
  /\ linkPreview = NoPreview
  /\ linkFetchTimeout = NoUrl
  /\ previewFetches = {}
  /\ submitted = NoSubmit
  /\ inputChanges = 0

(* useTypewriter: the first render, with a text and the effect still to run. *)
NoInterval == [active |-> FALSE, text |-> <<>>, currentIndex |-> 0]

firstRender(t) ==
  /\ typed = t
  /\ displayText = <<>>
  /\ isComplete = FALSE
  /\ interval = NoInterval
  /\ effectPending = TRUE
  /\ textChanges = 0

TypewriterIdle == firstRender(<<>>)

(* chat(): before the call, with an empty conversation. *)
LlmIdle ==
  /\ llmHistory = <<>>
  /\ llmQuery = NoValue
  /\ llmMessages = <<>>

----------------------------------------------------------------------------
(* Operations *)

\* a caller supplies the utterance of the next evaluation
SetText(t) ==
  /\ t # text
  /\ text' = t
  /\ textScore' = NoValue
  /\ result' = NoResult
  /\ UNCHANGED outsideSentiment
  /\ UNCHANGED <<history, memo>>

\* the caller passes no history argument
OmitHistory ==
  /\ history # AbsentHistory
  /\ history' = AbsentHistory
  /\ result' = NoResult
  /\ UNCHANGED outsideSentiment
  /\ UNCHANGED <<text, textScore, memo>>

\* the caller passes an empty history array
StartHistory ==
  /\ history # EmptyHistory
  /\ history' = EmptyHistory
  /\ result' = NoResult
  /\ UNCHANGED outsideSentiment
  /\ UNCHANGED <<text, textScore, memo>>

\* the conversation grows by one turn (Courtroom: messages.map to {role, content})
AppendTurn(role, content, bound) ==
  /\ Len(history.msgs) < bound
  /\ history' = [defined |-> TRUE,
                 msgs |-> Append(history.msgs, [role |-> role, content |-> content])]
  /\ result' = NoResult
  /\ UNCHANGED outsideSentiment
  /\ UNCHANGED <<text, textScore, memo>>

\* one call of analyzeTextScore(text)
ScoreText ==
  /\ textScore = NoValue
  /\ textScore' = [set |-> TRUE, value |-> analyzeTextScore(text)]
  /\ UNCHANGED outsideSentiment
  /\ UNCHANGED <<text, history, result, memo>>

\* variant: totalScore kept outside the function, so that a call starts from the
\* score of the call before it
EvaluateCarryingTotal ==
  /\ result' =
       LET r == analyzeSentiment(text, history)
           finalScore == MathMax(0, MathMin(r.score + MathMax(result.score, 0), 100))
           mood == getMoodFromScore(finalScore)
       IN [mood |-> mood, score |-> finalScore, strategy |-> getStrategyFromMood(mood)]
  /\ UNCHANGED outsideSentiment
  /\ UNCHANGED <<text, history, textScore, memo>>

\* one call of analyzeSentiment(text, history); the function is synchronous,
\* so the call runs to completion as one step
Evaluate ==
  /\ result' = analyzeSentiment(text, history)
  /\ UNCHANGED outsideSentiment
  /\ UNCHANGED <<text, history, textScore, memo>>

\* the caller takes the value that was returned; the call is kept, to compare
\* later calls with it
Remember ==
  /\ result # NoResult
  /\ memo' = [text |-> text, history |-> history, result |-> result]
  /\ result' = NoResult
  /\ UNCHANGED outsideSentiment
  /\ UNCHANGED <<text, history, textScore>>

----------------------------------------------------------------------------
(* Specifications *)

\* conversations: any text of Contents against any history up to MaxHist turns
SentimentIdle ==
  /\ text = EmptyText
  /\ history = AbsentHistory
  /\ textScore = NoValue
  /\ result = NoResult
  /\ memo = NoCall

Init ==
  /\ SentimentIdle
  /\ ChatIdle
  /\ FilesIdle
  /\ LinkIdle
  /\ CourtIdle
  /\ PreviewIdle
  /\ TypewriterIdle
  /\ LlmIdle
  /\ WarmupIdle
  /\ SpriteIdle

Next ==
  \/ \E t \in Contents \cup {EmptyText, TextDoubt} : SetText(t)
  \/ OmitHistory
  \/ StartHistory
  \/ \E role \in Roles, content \in Contents : AppendTurn(role, content, MaxHist)
  \/ ScoreText
  \/ Evaluate

Spec == Init /\ [][Next]_vars

\* single utterances: the scorer and the evaluation without history
InitScorer ==
  /\ text \in Utterances
  /\ history \in {AbsentHistory, EmptyHistory}
  /\ textScore = NoValue
  /\ result = NoResult
  /\ memo = NoCall
  /\ ChatIdle
  /\ FilesIdle
  /\ LinkIdle
  /\ CourtIdle
  /\ PreviewIdle
  /\ TypewriterIdle
  /\ LlmIdle
  /\ WarmupIdle
  /\ SpriteIdle

NextScorer ==
  \/ ScoreText
  \/ Evaluate

SpecScorer == InitScorer /\ [][NextScorer]_vars

\* repeated evaluations: calls in any order, one earlier call remembered
NextRepeat ==
  \/ \E t \in Contents \cup {EmptyText} : SetText(t)
  \/ OmitHistory
  \/ StartHistory
  \/ \E role \in Roles, content \in Contents : AppendTurn(role, content, MaxRepeatHist)
  \/ Evaluate
  \/ Remember

SpecRepeat == Init /\ [][NextRepeat]_vars

----------------------------------------------------------------------------
(* Vocabulary of the properties *)

Moods == {"POSITIVE", "NEUTRAL", "SKEPTICAL", "HOSTILE"}

Strategies == {"AGGRESSIVE", "ASSERTIVE", "DIPLOMATIC", "YIELDING"}

\* an evaluation of the current text and history has returned
Evaluated == result # NoResult

Clamp(n) == IF n < 0 THEN 0 ELSE IF n > 100 THEN 100 ELSE n

\* the user-authored turns of a history, oldest first
RECURSIVE UserTurns(_)
UserTurns(msgs) ==
  IF msgs = <<>> THEN <<>>
  ELSE IF Head(msgs).role = "user" THEN <<Head(msgs)>> \o UserTurns(Tail(msgs))
  ELSE UserTurns(Tail(msgs))

RECURSIVE FracSum(_, _)
\* the sum of f[1..n]
FracSum(f, n) == IF n = 0 THEN FracInt(0) ELSE FracAdd(FracSum(f, n - 1), f[n])

\* 0.6^e as the fraction 3^e / 5^e
Decay(e) == [num |-> 3 ^ e, den |-> 5 ^ e]

----------------------------------------------------------------------------
(* C1 *)

\* C1: every score analyzeSentiment returns is an integer between 0 and 100,
\* whatever the text and the history, also when the weighted total lies far
\* outside that range.
ScoreWithinBounds == Evaluated => result.score \in 0..100

\* a weighted total far above 100 was clamped
ScoreClampedFromAbove ==
  /\ Evaluated
  /\ MathRound(weightedTotal(text, history)) > 150
  /\ result.score = 100

----------------------------------------------------------------------------
(* C2 *)

\* the total in which user turn u_i (i from 0, oldest first, N turns) enters
\* with weight 0.6^(N-1-i) and the current text with weight 1
RecentHeaviestTotal(t, h) ==
  LET u == UserTurns(h.msgs)
      N == Len(u)
      term == [k \in 1..N |->
                 FracMul(FracInt(analyzeTextScore(u[k].content)), Decay(N - k))]
  IN FracAdd(FracSum(term, N), FracInt(analyzeTextScore(t)))

\* C2: with N user turns in the history, turn u_i contributes
\* raw(u_i) * 0.6^(N-1-i): the most recent turn has weight 1 and the oldest
\* the smallest weight, so the score is that total rounded and clamped.
RecentTurnsWeighMost ==
  Evaluated => result.score = Clamp(MathRound(RecentHeaviestTotal(text, history)))

----------------------------------------------------------------------------
(* C3 *)

\* the moods the threshold table allows for a score
MoodsAllowed(s) ==
  {m \in Moods :
     \/ m = "HOSTILE" /\ s >= 70
     \/ m = "SKEPTICAL" /\ 40 <= s /\ s < 70
     \/ m = "NEUTRAL" /\ 20 <= s /\ s < 40
     \/ m = "POSITIVE" /\ s < 20}

\* C3: the thresholds partition 0..100 (exactly one mood per score, 20 is
\* NEUTRAL, 40 is SKEPTICAL, 70 is HOSTILE) and the mood of every result is
\* the mood of its score.
MoodPartitionsScores ==
  /\ \A s \in 0..100 : MoodsAllowed(s) = {getMoodFromScore(s)}
  /\ Evaluated => MoodsAllowed(result.score) = {result.mood}

\* a result exactly on the lowest boundary
ScoreTwentyIsNeutral ==
  /\ Evaluated
  /\ result.score = 20
  /\ result.mood = "NEUTRAL"

----------------------------------------------------------------------------
(* C4 *)

StrategyTable ==
  [m \in Moods |->
     CASE m = "POSITIVE" -> "AGGRESSIVE"
       [] m = "NEUTRAL" -> "ASSERTIVE"
       [] m = "SKEPTICAL" -> "DIPLOMATIC"
       [] m = "HOSTILE" -> "YIELDING"]

\* C4: the strategy of every result is the table's strategy of its mood, the
\* table is a bijection between the four moods and the four strategies, and
\* the mood handed to getStrategyFromMood is always one of the four, so its
\* default branch is not taken.
StrategyIsBijectionOfMood ==
  /\ \A m \in Moods : getStrategyFromMood(m) = StrategyTable[m]
  /\ \A m1, m2 \in Moods : getStrategyFromMood(m1) = getStrategyFromMood(m2) => m1 = m2
  /\ {getStrategyFromMood(m) : m \in Moods} = Strategies
  /\ Evaluated => /\ result.mood \in Moods
                  /\ result.strategy = StrategyTable[result.mood]

\* a hostile conversation answered with the yielding strategy
HostileYields ==
  /\ Evaluated
  /\ result.mood = "HOSTILE"
  /\ result.strategy = "YIELDING"

----------------------------------------------------------------------------
(* C5 *)

\* whether some assistant entry with a non-zero raw score stands before a user turn
AssistantBetweenUserTurns(msgs) ==
  \E j, k \in 1..Len(msgs) :
    /\ j < k
    /\ msgs[j].role = "assistant"
    /\ analyzeTextScore(msgs[j].content) # 0
    /\ msgs[k].role = "user"
    /\ analyzeTextScore(msgs[k].content) # 0

\* C5: the result for a history equals the result for the same history with
\* every non-user entry removed.
AssistantTurnsIgnored ==
  Evaluated =>
    result = analyzeSentiment(text, [defined |-> history.defined,
                                    msgs |-> UserTurns(history.msgs)])

\* an evaluation whose history mixes scored assistant entries among user turns
EvaluatedWithAssistantTurns ==
  /\ Evaluated
  /\ AssistantBetweenUserTurns(history.msgs)
  /\ Len(UserTurns(history.msgs)) >= 2
  /\ result.score \in 1..99

----------------------------------------------------------------------------
(* Signals of one utterance, stated on the text itself *)

\* w stands in s at offset p
StandsAt(w, s, p) == \A j \in 1..Len(w) : s[p + j] = w[j]

Occurs(w, s) == \E p \in 0..(Len(s) - Len(w)) : StandsAt(w, s, p)

\* the distinct phrases of a lexicon that occur in the lower-cased text
PhrasesFound(lexicon, t) == {w \in Range(lexicon) : Occurs(w, toLowerCase(t))}

\* first positions of the whole-word runs of 3 or more uppercase letters
CapsWordStarts(s) ==
  {p \in 1..Len(s) :
     /\ p = 1 \/ ~isWordChar(s[p - 1])
     /\ \E e \in (p + 3)..(Len(s) + 1) :
          /\ \A q \in p..(e - 1) : isUpper(s[q])
          /\ e = Len(s) + 1 \/ ~isWordChar(s[e])}

\* first positions of the maximal runs of 2 or more characters of the set marks
RunStarts(s, marks) ==
  {p \in 1..Len(s) :
     /\ s[p] \in marks
     /\ p = 1 \/ s[p - 1] \notin marks
     /\ p < Len(s) /\ s[p + 1] \in marks}

\* runs of '!' and runs of '?', counted separately
EmphaticRuns(s) == Cardinality(RunStarts(s, {"!"})) + Cardinality(RunStarts(s, {"?"}))

\* runs of characters that are each '!' or '?'
MixedRuns(s) == Cardinality(RunStarts(s, {"!", "?"}))

\* 15*A + 10*S - 8*P + 12*C
WordsDelta(t) ==
  15 * Cardinality(PhrasesFound(ANGER_WORDS, t))
    + 10 * Cardinality(PhrasesFound(SKEPTICAL_PHRASES, t))
    - 8 * Cardinality(PhrasesFound(POSITIVE_WORDS, t))
    + 12 * Cardinality(CapsWordStarts(t))

Scored == textScore.set

NoUserTurn(h) == \A k \in 1..Len(h.msgs) : h.msgs[k].role # "user"

----------------------------------------------------------------------------
(* C6 *)

\* the text matches no lexicon phrase, no shouting word and no punctuation run
NoSignals(t) ==
  /\ PhrasesFound(ANGER_WORDS, t) = {}
  /\ PhrasesFound(SKEPTICAL_PHRASES, t) = {}
  /\ PhrasesFound(POSITIVE_WORDS, t) = {}
  /\ CapsWordStarts(t) = {}
  /\ EmphaticRuns(t) = 0

\* C6: a text without any signal, evaluated without history, gets score 0,
\* mood POSITIVE and strategy AGGRESSIVE.
QuietTextIsPositive ==
  Evaluated /\ NoSignals(text) /\ history.msgs = <<>> =>
    result = [mood |-> "POSITIVE", score |-> 0, strategy |-> "AGGRESSIVE"]

\* the empty string evaluated without a history argument
EmptyTextEvaluated ==
  /\ Evaluated
  /\ text = EmptyText
  /\ history = AbsentHistory
  /\ result.score = 0

----------------------------------------------------------------------------
(* C7 *)

\* C7: an absent history, an empty one and one without user turns give the
\* same result, whose score is the raw score of the text alone, clamped.
NoUserHistoryMeansTextAlone ==
  Evaluated /\ NoUserTurn(history) =>
    /\ result.score = Clamp(analyzeTextScore(text))
    /\ result = analyzeSentiment(text, AbsentHistory)
    /\ result = analyzeSentiment(text, EmptyHistory)

\* an evaluation against a history made of scored assistant entries only
EvaluatedAgainstAssistantOnly ==
  /\ Evaluated
  /\ Len(history.msgs) >= 2
  /\ NoUserTurn(history)
  /\ \A k \in 1..Len(history.msgs) : analyzeTextScore(history.msgs[k].content) # 0
  /\ result.score \in 1..99

----------------------------------------------------------------------------
(* C8 *)

\* the remembered call had the arguments of the current one
SameArgumentsAsRemembered ==
  /\ memo # NoCall
  /\ memo.text = text
  /\ memo.history = history

----------------------------------------------------------------------------
(* C9 *)

\* C9: the raw score is 15*A + 10*S - 8*P + 12*C + 8*E over the distinct
\* phrases found, the shouted words and the punctuation runs; the two example
\* texts score 38 (NEUTRAL, ASSERTIVE) and 81 (HOSTILE, YIELDING).
RawScoreIsWeightedCount ==
  /\ Scored => textScore.value = WordsDelta(text) + 8 * EmphaticRuns(text)
  /\ Evaluated /\ text = TextTerrible =>
       result = [mood |-> "NEUTRAL", score |-> 38, strategy |-> "ASSERTIVE"]
  /\ Evaluated /\ text = TextGarbage =>
       result = [mood |-> "HOSTILE", score |-> 81, strategy |-> "YIELDING"]

\* the shouted example scored and evaluated
GarbageExampleScored ==
  /\ Scored
  /\ Evaluated
  /\ text = TextGarbage
  /\ textScore.value = 81

----------------------------------------------------------------------------
(* C10 *)

\* C10 as stated: each maximal run of two or more characters that are each
\* '!' or '?' adds 8, once per run, mixed runs included.
MixedRunAddsEight ==
  Scored => textScore.value - WordsDelta(text) = 8 * MixedRuns(text)

\* C10 amended: each maximal run of two or more '!' adds 8 and each maximal run
\* of two or more '?' adds 8; a single mark, or a mark next to the other kind
\* only, adds nothing.
SameMarkRunAddsEight ==
  Scored => textScore.value - WordsDelta(text) = 8 * EmphaticRuns(text)

\* "!!??" scored: two runs, one of each mark
BothMarksScored ==
  /\ Scored
  /\ text = <<"!", "!", "?", "?">>
  /\ textScore.value = 16

----------------------------------------------------------------------------
(* C11 *)

AllPhrasesFound(t) ==
  PhrasesFound(ANGER_WORDS, t) \cup PhrasesFound(SKEPTICAL_PHRASES, t)
    \cup PhrasesFound(POSITIVE_WORDS, t)

\* every occurrence of w in the lower-cased text touches a further word character
OnlyInsideLongerWords(w, t) ==
  LET s == toLowerCase(t)
  IN \A p \in 0..(Len(s) - Len(w)) :
       StandsAt(w, s, p) =>
         \/ p >= 1 /\ isWordChar(s[p])
         \/ p + Len(w) < Len(s) /\ isWordChar(s[p + Len(w) + 1])

\* the text has one lexicon hit, buried in a longer word, and no other signal
SingleBuriedHit(t) ==
  /\ Cardinality(AllPhrasesFound(t)) = 1
  /\ \A w \in AllPhrasesFound(t) : OnlyInsideLongerWords(w, t)
  /\ CapsWordStarts(t) = {}
  /\ EmphaticRuns(t) = 0

\* C11: matching is by substring: a text whose only lexicon hit lies inside a
\* longer word scores the full delta of that phrase, as the phrase alone does
\* ("badge" scores the +15 of "bad").
BuriedPhraseCountsInFull ==
  /\ Scored /\ SingleBuriedHit(text) =>
       \A w \in AllPhrasesFound(text) :
         /\ textScore.value = analyzeTextScore(w)
         /\ w \in Range(ANGER_WORDS) => textScore.value = 15
  /\ Scored /\ text = TextBadge => textScore.value = 15

\* "badge" scored
BadgeScored ==
  /\ Scored
  /\ text = TextBadge
  /\ SingleBuriedHit(text)
  /\ textScore.value = 15

----------------------------------------------------------------------------
(* C12 *)

\* C12: with exactly one user turn h in the history the turn has weight 1 and
\* the current text t enters unweighted: score = clamp(raw(h) + raw(t)).
SingleTurnHasFullWeight ==
  Evaluated /\ Len(UserTurns(history.msgs)) = 1 =>
    result.score =
      Clamp(analyzeTextScore(UserTurns(history.msgs)[1].content) + analyzeTextScore(text))

\* one scored user turn and a scored text, nothing clamped
EvaluatedWithSingleTurn ==
  /\ Evaluated
  /\ Len(UserTurns(history.msgs)) = 1
  /\ analyzeTextScore(UserTurns(history.msgs)[1].content) # 0
  /\ analyzeTextScore(text) # 0
  /\ result.score \in 1..99

----------------------------------------------------------------------------
(* C13 *)

UserTurn(content) == [role |-> "user", content |-> content]

BadBadHistory == [defined |-> TRUE, msgs |-> <<UserTurn(TextBad), UserTurn(TextBad)>>]

\* C13: history [user "bad", user "bad"] with the text "bad" gives the total
\* 39 (one turn at 0.6, one at 1, the text at 1) and so score 39, NEUTRAL,
\* ASSERTIVE.
BadThriceScoresThirtyNine ==
  Evaluated /\ text = TextBad /\ history = BadBadHistory =>
    /\ weightedTotal(text, history) = FracInt(39)
    /\ result = [mood |-> "NEUTRAL", score |-> 39, strategy |-> "ASSERTIVE"]

\* the example evaluated
BadThriceEvaluated ==
  /\ Evaluated
  /\ text = TextBad
  /\ history = BadBadHistory
  /\ result.score = 39

----------------------------------------------------------------------------
(* C14 *)

\* the other order: the total clamped to [0,100] first and rounded afterwards
ClampThenRound(total) ==
  IF total.num < 0 THEN MathRound(FracInt(0))
  ELSE IF total.num > 100 * total.den THEN MathRound(FracInt(100))
  ELSE MathRound(total)

\* totals in tenths around both bounds: -2.0 .. 2.0 and 98.0 .. 102.0,
\* among them 99.6 and 100.4
BoundaryTotals == {Frac(n, 10) : n \in (-20..20) \cup (980..1020)}

\* C14 as stated: rounding before clamping is observable, some weighted total
\* (such as 100.4 or 99.6) gets a different score when clamped first.
RoundingOrderObservable ==
  Evaluated =>
    \E total \in BoundaryTotals \cup {weightedTotal(text, history)} :
      roundThenClamp(total) # ClampThenRound(total)

\* C14 amended: the total is rounded and then clamped, and clamping first gives
\* the same score for every weighted total, 100.4 and 99.6 included.
RoundingOrderNotObservable ==
  Evaluated =>
    /\ result.score = roundThenClamp(weightedTotal(text, history))
    /\ result.score = ClampThenRound(weightedTotal(text, history))
    /\ \A total \in BoundaryTotals : roundThenClamp(total) = ClampThenRound(total)

\* a fractional total between 100 and 101 that rounds to 101 before the clamp
EvaluatedJustAboveHundred ==
  /\ Evaluated
  /\ weightedTotal(text, history).den # 1
  /\ MathRound(weightedTotal(text, history)) = 101
  /\ result.score = 100

----------------------------------------------------------------------------
(* POST /api/my-lawyer/chat *)

\* longest history array in a request body
MaxChatHist == 2

WhitespaceChars == {" ", "\t", "\n"}

RECURSIVE trimStart(_)
trimStart(s) ==
  IF s # <<>> /\ Head(s) \in WhitespaceChars THEN trimStart(Tail(s)) ELSE s

RECURSIVE trimEnd(_)
trimEnd(s) ==
  IF s # <<>> /\ s[Len(s)] \in WhitespaceChars
    THEN trimEnd(SubSeq(s, 1, Len(s) - 1))
    ELSE s

\* String.prototype.trim
trim(s) == trimEnd(trimStart(s))

\* !v
isFalsy(v) ==
  \/ v.kind \in {"undefined", "null"}
  \/ v.kind = "number" /\ v.num = 0
  \/ v.kind = "string" /\ v.str = <<>>

\* typeof v
typeOf(v) == IF v.kind = "null" THEN "object" ELSE v.kind

\* variant: a blank string is not trimmed before it is tested
queryRejectedUntrimmed(query) ==
  \/ isFalsy(query)
  \/ typeOf(query) # "string"

\* !query || typeof query !== "string" || query.trim() === ""
queryRejected(query) ==
  \/ isFalsy(query)
  \/ typeOf(query) # "string"
  \/ trim(query.str) = <<>>

\* const { history = [] } = body
historyOrDefault(h) == IF h.defined THEN h ELSE EmptyHistory

QueryValues ==
  { JsUndefined, JsNull, JsEmptyObject, JsNumber(0), JsNumber(42),
    JsString(EmptyText), JsString(<<" ", " ">>), JsString(TextBad),
    JsString(<<" ">> \o TextBad \o <<" ">>), JsString(TextGarbage) }

BodyHistories ==
  {AbsentHistory} \cup
    { [defined |-> TRUE, msgs |-> m] :
        m \in UNION {[1..k -> [role : Roles, content : {TextBad, TextThanks}]] :
                       k \in 0..MaxChatHist} }

\* the bodies request.json() can deliver, and one that does not parse
Bodies ==
  { [parsed |-> TRUE, query |-> q, history |-> h] : q \in QueryValues, h \in BodyHistories }
    \cup {[parsed |-> FALSE, query |-> JsUndefined, history |-> AbsentHistory]}

\* the texts of chat() and of the route
TechnicalText == <<"O","b","j","e","c","t","i","o","n","!"," ","T","e","c","h","n","i","c","a","l"," ","d","i","f","f","i","c","u","l","t","i","e","s"," ","i","n"," ","t","h","e"," ","c","o","u","r","t","r","o","o","m","."," ","P","l","e","a","s","e"," ","t","r","y"," ","a","g","a","i","n",".">>

EmptyAnswerText == <<"T","h","e"," ","e","v","i","d","e","n","c","e"," ","r","e","q","u","i","r","e","s"," ","f","u","r","t","h","e","r"," ","e","x","a","m","i","n","a","t","i","o","n",".",".",".">>

KeyMissingMessage == <<"N","V","I","D","I","A","_","A","P","I","_","K","E","Y"," ","e","n","v","i","r","o","n","m","e","n","t"," ","v","a","r","i","a","b","l","e"," ","i","s"," ","n","o","t"," ","s","e","t","."," ","P","l","e","a","s","e"," ","a","d","d"," ","i","t"," ","t","o"," ",".","e","n","v">>

\* the message goes on with the directories searched
DataDirMessage == <<"D","a","t","a"," ","d","i","r","e","c","t","o","r","y"," ","n","o","t"," ","f","o","u","n","d","."," ","S","e","a","r","c","h","e","d",":"," ">>

NoDocumentsMessage == <<"N","o"," ","e","v","i","d","e","n","c","e"," ","d","o","c","u","m","e","n","t","s"," ","f","o","u","n","d"," ","i","n"," ","d","a","t","a","/"," ","f","o","l","d","e","r">>

HfTokenText == <<"H","F","_","T","O","K","E","N">>

ObjectionText == <<"o","b","j","e","c","t","i","o","n","!">>

HoldItText == <<"h","o","l","d"," ","i","t","!">>

\* what the hosted model does: the call fails, or it answers; an answer is
\* given by its mood tag and by its text after the cleaning of chat()
LlmFailed == [ok |-> FALSE, moodTag |-> "failed", cleanText |-> <<>>]

LlmResults ==
  { LlmFailed,
    [ok |-> TRUE, moodTag |-> "PRESENTING", cleanText |-> <<"I","n","d","e","e","d",".">>],
    [ok |-> TRUE, moodTag |-> "OBJECTING", cleanText |-> <<"O","b","j","e","c","t","i","o","n","!"," ","T","h","a","t"," ","i","s"," ","f","a","l","s","e",".">>],
    [ok |-> TRUE, moodTag |-> "SERIOUS", cleanText |-> <<"H","o","l","d"," ","i","t","!">>],
    [ok |-> TRUE, moodTag |-> "THINKING", cleanText |-> <<>>] }

DataFiles == {"ok", "no data dir", "no documents"}

Thrown(message) == [threw |-> TRUE, message |-> message, value |-> NoReply]

Returned(value) == [threw |-> FALSE, message |-> <<>>, value |-> value]

\* the body of the 400 and 500 responses: no text
ErrorReply == [text |-> <<>>, mood |-> "THINKING", isObjection |-> FALSE]

\* chat(): getNvidiaApiKey and searchEvidence stand before the try block
chat(key, data, llm) ==
  IF ~key THEN Thrown(KeyMissingMessage)
  ELSE IF data = "no documents" THEN Thrown(NoDocumentsMessage)
  ELSE IF ~llm.ok
    THEN Returned([text |-> TechnicalText, mood |-> "THINKING", isObjection |-> FALSE])
    ELSE Returned([text |-> IF llm.cleanText = <<>> THEN EmptyAnswerText ELSE llm.cleanText,
                   mood |-> llm.moodTag,
                   isObjection |-> \/ llm.moodTag = "OBJECTING"
                                   \/ includes(toLowerCase(llm.cleanText), ObjectionText)])

shouldTriggerObjection(t, m) ==
  IF t = <<>> THEN FALSE
  ELSE \/ m = "OBJECTING"
       \/ includes(toLowerCase(t), ObjectionText)
       \/ includes(toLowerCase(t), HoldItText)

\* a request arrives and the handler awaits request.json()
PostReceive(body) ==
  /\ postPc \in {"idle", "done"}
  /\ request' = body
  /\ sentiment' = NoResult
  /\ response' = NoResponse
  /\ postPc' = "received"
  /\ reply' = NoReply
  /\ llmResult' = NoLlm
  /\ UNCHANGED <<apiKey, dataFiles>>
  /\ UNCHANGED outsideChat

\* the body is read, the query validated and the sentiment analysed; the
\* handler then awaits the persona, the bio and the model
PostAnalyse ==
  /\ postPc = "received"
  /\ IF ~request.parsed
       THEN /\ response' = [status |-> 500, error |-> "technical"]
            /\ reply' = ErrorReply
            /\ postPc' = "done"
            /\ UNCHANGED sentiment
       ELSE IF queryRejected(request.query)
         THEN /\ response' = [status |-> 400, error |-> "no-query"]
              /\ reply' = ErrorReply
              /\ postPc' = "done"
              /\ UNCHANGED sentiment
         ELSE /\ sentiment' = analyzeSentiment(trim(request.query.str),
                                               historyOrDefault(request.history))
              /\ postPc' = "loading"
              /\ UNCHANGED <<response, reply>>
  /\ UNCHANGED <<request, llmResult, apiKey, dataFiles>>
  /\ UNCHANGED outsideChat

\* loadPersona, loadBio (resolveDataDir throws) and then chat: a value
\* returned or an Error thrown
awaited(llm) ==
  IF dataFiles = "no data dir" THEN Thrown(DataDirMessage) ELSE chat(apiKey, dataFiles, llm)

\* the awaited calls settle: the answer is returned with the isObjection of
\* shouldTriggerObjection, or an exception reaches the catch block
PostFinish(llm) ==
  /\ postPc = "loading"
  /\ LET outcome == awaited(llm) IN
       IF outcome.threw
         THEN /\ response' = [status |-> 500,
                              error |-> IF includes(outcome.message, HfTokenText)
                                          THEN "credentials" ELSE "technical"]
              /\ reply' = ErrorReply
              /\ llmResult' = NoLlm
         ELSE /\ response' = [status |-> 200, error |-> "none"]
              /\ reply' = [text |-> outcome.value.text,
                           mood |-> outcome.value.mood,
                           isObjection |->
                             shouldTriggerObjection(outcome.value.text, outcome.value.mood)]
              /\ llmResult' = llm
  /\ postPc' = "done"
  /\ UNCHANGED <<request, sentiment, apiKey, dataFiles>>
  /\ UNCHANGED outsideChat

InitChat ==
  /\ SentimentIdle
  /\ HandlerIdle
  /\ apiKey \in BOOLEAN
  /\ dataFiles \in DataFiles
  /\ FilesIdle
  /\ LinkIdle
  /\ CourtIdle
  /\ PreviewIdle
  /\ TypewriterIdle
  /\ LlmIdle
  /\ WarmupIdle
  /\ SpriteIdle

NextChat ==
  \/ \E body \in Bodies : PostReceive(body)
  \/ PostAnalyse
  \/ \E llm \in LlmResults : PostFinish(llm)

SpecChat == InitChat /\ [][NextChat]_vars

----------------------------------------------------------------------------
(* C15 *)

Responded == postPc = "done"

ValidSentiment(r) ==
  /\ r.score \in 0..100
  /\ r.mood \in Moods
  /\ r.strategy \in Strategies

----------------------------------------------------------------------------
(* File processor (lib/my-lawyer/fileProcessor): limits, getFileType,      *)
(* validateFiles, processFile.  A File is [type, ext, size, readable]: its  *)
(* MIME type ("" when the browser gives none), the lower-cased extension of *)
(* its name, its size in bytes, and whether its content can be extracted.   *)

MaxBatches == 3
MaxBatchFiles == 2

MAX_FILE_SIZE == 10 * 1024 * 1024
MAX_TOTAL_SIZE == 20 * 1024 * 1024
MAX_FILES == 5

SUPPORTED_IMAGE_TYPES == {"image/jpeg", "image/png", "image/gif", "image/webp"}

SUPPORTED_DOCUMENT_TYPES ==
  {"application/pdf",
   "application/vnd.openxmlformats-officedocument.wordprocessingml.document",
   "text/plain", "text/markdown", "text/csv"}

SUPPORTED_EXTENSIONS ==
  {<<".jpg", "image/jpeg">>, <<".jpeg", "image/jpeg">>, <<".png", "image/png">>,
   <<".gif", "image/gif">>, <<".webp", "image/webp">>, <<".pdf", "application/pdf">>,
   <<".docx", "application/vnd.openxmlformats-officedocument.wordprocessingml.document">>,
   <<".txt", "text/plain">>, <<".md", "text/markdown">>, <<".csv", "text/csv">>}

getMimeTypeFromExtension(ext) ==
  IF \E p \in SUPPORTED_EXTENSIONS : p[1] = ext
  THEN (CHOOSE p \in SUPPORTED_EXTENSIONS : p[1] = ext)[2]
  ELSE ""

getFileType(file) ==
  LET mimeType == IF file.type # "" THEN file.type ELSE getMimeTypeFromExtension(file.ext)
  IN  IF mimeType \in SUPPORTED_IMAGE_TYPES THEN "image"
      ELSE IF mimeType \in SUPPORTED_DOCUMENT_TYPES THEN "document"
      ELSE "null"

RECURSIVE totalSize(_)
totalSize(fs) == IF fs = <<>> THEN 0 ELSE fs[1].size + totalSize(Tail(fs))

(* The loop of validateFiles over files[i..], with the running newTotalSize. *)
RECURSIVE forFiles(_, _, _, _, _)
forFiles(files, i, newTotalSize, valid, errors) ==
  IF i > Len(files) THEN [valid |-> valid, errors |-> errors]
  ELSE LET file == files[i] IN
    IF getFileType(file) = "null"
      THEN forFiles(files, i + 1, newTotalSize, valid, Append(errors, "Unsupported file type"))
    ELSE IF file.size > MAX_FILE_SIZE
      THEN forFiles(files, i + 1, newTotalSize, valid, Append(errors, "Exceeds 10MB limit"))
    ELSE IF newTotalSize + file.size > MAX_TOTAL_SIZE
      THEN forFiles(files, i + 1, newTotalSize, valid,
                    Append(errors, "Would exceed 20MB total limit"))
    ELSE forFiles(files, i + 1, newTotalSize + file.size, Append(valid, file), errors)

validateFiles(files, existingFiles) ==
  IF Len(existingFiles) + Len(files) > MAX_FILES
  THEN [valid |-> <<>>, errors |-> <<"Maximum 5 files allowed">>]
  ELSE forFiles(files, 1, totalSize(existingFiles), <<>>, <<>>)

(* Ids: `pending-...` of a placeholder, `file-...` of generateFileId; the   *)
(* random tail is the batch and the position in it.                         *)
pendingId(b, i) == [prefix |-> "pending-", batch |-> b, index |-> i]
generateFileId(b, i) == [prefix |-> "file-", batch |-> b, index |-> i]

pendingAttachments(valid, b) ==
  [i \in 1..Len(valid) |->
     [id |-> pendingId(b, i), size |-> valid[i].size, status |-> "processing"]]

(* processFile never throws: it returns the attachment as "ready", or as    *)
(* "error" when extracting the content of the file threw.                   *)
processFile(file, id) ==
  [id |-> id, size |-> file.size, status |-> IF file.readable THEN "ready" ELSE "error"]

processed(valid, b) ==
  [i \in 1..Len(valid) |-> processFile(valid[i], generateFileId(b, i))]

(* Files a user can choose. *)
PhotoFile ==
  [type |-> "image/png", ext |-> ".png", size |-> 4 * 1024 * 1024, readable |-> TRUE]
NotesFile ==
  [type |-> "", ext |-> ".md", size |-> MAX_FILE_SIZE, readable |-> FALSE]
ScanFile ==
  [type |-> "application/pdf", ext |-> ".pdf", size |-> MAX_FILE_SIZE + 1, readable |-> TRUE]
ArchiveFile ==
  [type |-> "application/zip", ext |-> ".zip", size |-> 4 * 1024 * 1024, readable |-> TRUE]
Files == {PhotoFile, NotesFile, ScanFile, ArchiveFile}

FileBatches == UNION {[1..n -> Files] : n \in 1..MaxBatchFiles}

----------------------------------------------------------------------------
(* ChatBox attachments.  Every handler runs to its `await` (or its end) in  *)
(* one step, and React renders between two events, so that a handler sees   *)
(* the `attachments` of the state it is called in; what it holds after the  *)
(* `await` is its closure, kept in inFlight.                                *)

isPending(a) == a.id.prefix = "pending-"

closure(b, handler, captured, valid) ==
  [batch |-> b, handler |-> handler, attachments |-> captured, valid |-> valid]

called(files, v) ==
  [files |-> files, existingFiles |-> attachments, valid |-> v.valid, errors |-> v.errors]

(* ChatBox.handleFilesSelected up to `await Promise.all(valid.map(processFile))`; *)
(* it no longer reads its `attachments` after the validation.               *)
handleFilesSelected(files) ==
  /\ ~disabled
  /\ started < MaxBatches
  /\ LET v == validateFiles(files, attachments)
         b == started + 1
     IN  /\ validation' = called(files, v)
         /\ started' = b
         /\ IF v.valid = <<>>
            THEN UNCHANGED <<attachments, inFlight>>
            ELSE /\ attachments' = attachments \o pendingAttachments(v.valid, b)
                 /\ inFlight' = inFlight \cup {closure(b, "handleFilesSelected", <<>>, v.valid)}
  /\ UNCHANGED disabled
  /\ UNCHANGED outsideFiles

(* ChatBox.handleFilesSelected after the await: the functional update of    *)
(* setAttachments on the state of that moment.                              *)
filesSelectedProcessed(c) ==
  /\ c \in inFlight
  /\ c.handler = "handleFilesSelected"
  /\ LET pending == pendingAttachments(c.valid, c.batch)
         existing == SelectSeq(attachments,
                       LAMBDA a : ~isPending(a)
                                  \/ ~(\E i \in 1..Len(pending) : pending[i].id = a.id))
     IN  attachments' = SelectSeq(existing, LAMBDA a : ~isPending(a))
                          \o processed(c.valid, c.batch)
  /\ inFlight' = inFlight \ {c}
  /\ UNCHANGED <<started, validation, disabled>>
  /\ UNCHANGED outsideFiles

(* FileUploadZone.handleDrop and handleFiles up to the await. *)
handleFiles(files) ==
  /\ ~disabled
  /\ started < MaxBatches
  /\ LET v == validateFiles(files, attachments)
         b == started + 1
     IN  /\ validation' = called(files, v)
         /\ started' = b
         /\ IF v.valid = <<>>
            THEN UNCHANGED <<attachments, inFlight>>
            ELSE /\ attachments' = attachments \o pendingAttachments(v.valid, b)
                 /\ inFlight' = inFlight \cup {closure(b, "handleFiles", attachments, v.valid)}
  /\ UNCHANGED disabled
  /\ UNCHANGED outsideFiles

(* FileUploadZone.handleFiles after the await:                              *)
(* onAttachmentsChange([...attachments, ...processed]) with the attachments *)
(* of its closure.                                                          *)
filesProcessed(c) ==
  /\ c \in inFlight
  /\ c.handler = "handleFiles"
  /\ attachments' = c.attachments \o processed(c.valid, c.batch)
  /\ inFlight' = inFlight \ {c}
  /\ UNCHANGED <<started, validation, disabled>>
  /\ UNCHANGED outsideFiles

(* AttachmentPreview onRemove={(id) => setAttachments(prev => prev.filter(a => a.id !== id))} *)
onRemove(id) ==
  /\ \E i \in 1..Len(attachments) : attachments[i].id = id
  /\ attachments' = SelectSeq(attachments, LAMBDA a : a.id # id)
  /\ UNCHANGED <<inFlight, started, validation, disabled>>
  /\ UNCHANGED outsideFiles

(* ChatBox.handleSubmit with something to send: it returns while a file is  *)
(* processing; else it sends (Courtroom sets isLoading) and empties the list. *)
handleSubmit ==
  /\ ~disabled
  /\ \A i \in 1..Len(attachments) : attachments[i].status # "processing"
  /\ attachments' = <<>>
  /\ disabled' = TRUE
  /\ UNCHANGED <<inFlight, started, validation>>
  /\ UNCHANGED outsideFiles

(* Courtroom: the answer arrived, setIsLoading(false). *)
loadingEnds ==
  /\ disabled
  /\ disabled' = FALSE
  /\ UNCHANGED <<attachments, inFlight, started, validation>>
  /\ UNCHANGED outsideFiles

AttachmentIds == {attachments[i].id : i \in 1..Len(attachments)}

InitFiles ==
  /\ SentimentIdle
  /\ ChatIdle
  /\ FilesIdle
  /\ LinkIdle
  /\ CourtIdle
  /\ PreviewIdle
  /\ TypewriterIdle
  /\ LlmIdle
  /\ WarmupIdle
  /\ SpriteIdle

NextFiles ==
  \/ \E files \in FileBatches : handleFilesSelected(files)
  \/ \E files \in FileBatches : handleFiles(files)
  \/ \E c \in inFlight : filesSelectedProcessed(c)
  \/ \E c \in inFlight : filesProcessed(c)
  \/ \E id \in AttachmentIds : onRemove(id)
  \/ handleSubmit
  \/ loadingEnds

SpecFiles == InitFiles /\ [][NextFiles]_vars

(* What the last call of validateFiles was given and what it returned. *)
Validated == validation # NoValidation

Accepted(file, total) ==
  /\ getFileType(file) \in {"image", "document"}
  /\ file.size <= MAX_FILE_SIZE
  /\ total + file.size <= MAX_TOTAL_SIZE

(* The files of files[i..] accepted in batch order, `total` being the size   *)
(* of the existing files and of the files accepted before.                   *)
RECURSIVE AcceptedInOrder(_, _, _)
AcceptedInOrder(files, i, total) ==
  IF i > Len(files) THEN <<>>
  ELSE IF Accepted(files[i], total)
       THEN <<files[i]>> \o AcceptedInOrder(files, i + 1, total + files[i].size)
       ELSE AcceptedInOrder(files, i + 1, total)

BatchRuleObserved ==
  Validated =>
    IF Len(validation.existingFiles) + Len(validation.files) > MAX_FILES
    THEN validation.valid = <<>> /\ Len(validation.errors) = 1
    ELSE validation.valid =
           AcceptedInOrder(validation.files, 1, totalSize(validation.existingFiles))

LimitsAfterValidation ==
  Validated =>
    /\ Len(validation.existingFiles) + Len(validation.valid) <= MAX_FILES
    /\ totalSize(validation.existingFiles) + totalSize(validation.valid) <= MAX_TOTAL_SIZE

AtMostFiveAttachments == Len(attachments) <= MAX_FILES

----------------------------------------------------------------------------
(* POST /api/my-lawyer/fetch-link.  `new URL(s)` is the WHATWG parser with  *)
(* no base URL, modelled for strings without credentials, port, tab or      *)
(* newline inside: the scheme, and for a special scheme the host.           *)

\* outbound fetches made in one run
MaxFetches == 3

HttpProtocol == <<"h","t","t","p",":">>
HttpsProtocol == <<"h","t","t","p","s",":">>

SpecialSchemes ==
  {<<"h","t","t","p">>, <<"h","t","t","p","s">>, <<"f","t","p">>, <<"w","s">>, <<"w","s","s">>, <<"f","i","l","e">>}

isAlpha(c) == c \in Range(UpperChars) \/ c \in Range(LowerChars)

\* scheme start state and scheme state: the index of the ":" ending the scheme, or 0
RECURSIVE schemeEnd(_, _)
schemeEnd(s, i) ==
  IF i > Len(s) THEN 0
  ELSE IF i > 1 /\ s[i] = ":" THEN i
  ELSE IF isAlpha(s[i]) \/ (i > 1 /\ (s[i] \in Range(DigitChars) \/ s[i] \in {"+", "-", "."}))
    THEN schemeEnd(s, i + 1)
  ELSE 0

\* special authority (ignore) slashes state
RECURSIVE skipSlashes(_, _)
skipSlashes(s, i) ==
  IF i <= Len(s) /\ s[i] \in {"/", "\\"} THEN skipSlashes(s, i + 1) ELSE i

\* host state: the host runs to the next "/", "\", "?", "#" or to the end
RECURSIVE hostEnd(_, _)
hostEnd(s, i) ==
  IF i > Len(s) \/ s[i] \in {"/", "\\", "?", "#"} THEN i ELSE hostEnd(s, i + 1)

ForbiddenHostChars == {" ", "<", ">", "[", "]", "^", "|", "%", "@", ":"}

\* new URL(s): [ok, protocol]; ok = FALSE when the constructor throws
parseUrl(s) ==
  LET t == trim(s)
      e == schemeEnd(t, 1)
      scheme == toLowerCase(SubSeq(t, 1, e - 1))
      from == skipSlashes(t, e + 1)
      host == SubSeq(t, from, hostEnd(t, from) - 1)
  IN  IF e = 0 THEN [ok |-> FALSE, protocol |-> <<>>]
      ELSE IF scheme \notin SpecialSchemes \/ scheme = <<"f","i","l","e">>
        THEN [ok |-> TRUE, protocol |-> scheme \o <<":">>]
      ELSE IF host = <<>> \/ \E k \in 1..Len(host) : host[k] \in ForbiddenHostChars
        THEN [ok |-> FALSE, protocol |-> <<>>]
      ELSE [ok |-> TRUE, protocol |-> scheme \o <<":">>]

\* variant: any URL that parses is taken, whatever its protocol
isValidUrlAnyProtocol(urlString) == parseUrl(urlString).ok

isValidUrl(urlString) ==
  LET url == parseUrl(urlString)
  IN  url.ok /\ (url.protocol = HttpProtocol \/ url.protocol = HttpsProtocol)

UrlHttps == <<"h","t","t","p","s",":","/","/","a",".","i","o">>
UrlHttpPath == <<"h","t","t","p",":","/","/","a",".","i","o","/","x">>
UrlUpperScheme == <<"H","T","T","P",":","/","/","A",".","I","O">>
UrlLeadingSpace == <<" ","h","t","t","p","s",":","/","/","a",".","i","o">>
UrlNoSlashes == <<"h","t","t","p",":","a",".","i","o">>
UrlFtp == <<"f","t","p",":","/","/","a",".","i","o">>
UrlJavascript == <<"j","a","v","a","s","c","r","i","p","t",":","x">>
UrlFile == <<"f","i","l","e",":","/","/","/","x">>
UrlNoScheme == <<"a",".","i","o">>
UrlEmptyHost == <<"h","t","t","p",":","/","/">>
UrlSchemeRelative == <<"/","/","a",".","i","o">>
UrlSpaceInHost == <<"h","t","t","p",":","/","/","a"," ","b">>
UrlBareWord == <<"h","t","t","p","s">>

UrlStrings ==
  {UrlHttps, UrlHttpPath, UrlUpperScheme, UrlLeadingSpace, UrlNoSlashes, UrlFtp, UrlJavascript, UrlFile, 
   UrlNoScheme, UrlEmptyHost, UrlSchemeRelative, UrlSpaceInHost, UrlBareWord}

UrlValues ==
  {JsUndefined, JsNull, JsEmptyObject, JsNumber(0), JsNumber(42), JsString(EmptyText)}
    \cup {JsString(u) : u \in UrlStrings}

\* what request.json() delivers: a JSON value with its `url`, the value null,
\* or nothing (the body is no JSON and request.json() throws)
LinkBodies ==
  {[parsed |-> TRUE, isNull |-> FALSE, url |-> u] : u \in UrlValues}
    \cup {[parsed |-> TRUE, isNull |-> TRUE, url |-> JsUndefined],
          [parsed |-> FALSE, isNull |-> FALSE, url |-> JsUndefined]}

\* how the outbound fetch settles: "ok", or the message of what it throws
FetchOutcomes == {"ok", "ENOTFOUND", "ECONNREFUSED", "timeout", "HTTP 404"}

\* the catch block: the status chosen from the message of the error
catchStatus(message) ==
  IF message \in {"ENOTFOUND", "ECONNREFUSED"} THEN 502
  ELSE IF message = "timeout" THEN 504
  ELSE 500

\* POST to `await fetchUrlMetadata(url)`: the body is read, the url checked,
\* and the outbound fetch started
FetchLinkPost(body) ==
  /\ linkPc \in {"idle", "done"}
  /\ fetches < MaxFetches
  /\ linkRequest' = body
  /\ IF ~body.parsed \/ body.isNull
       THEN /\ linkResponse' = [status |-> catchStatus("not JSON"), error |-> "message"]
            /\ linkFetch' = NoFetch
            /\ linkPc' = "done"
            /\ UNCHANGED fetches
     ELSE IF isFalsy(body.url) \/ typeOf(body.url) # "string"
       THEN /\ linkResponse' = [status |-> 400, error |-> "No URL provided"]
            /\ linkFetch' = NoFetch
            /\ linkPc' = "done"
            /\ UNCHANGED fetches
     ELSE IF ~isValidUrl(body.url.str)
       THEN /\ linkResponse' = [status |-> 400, error |-> "Invalid URL format"]
            /\ linkFetch' = NoFetch
            /\ linkPc' = "done"
            /\ UNCHANGED fetches
     ELSE /\ linkFetch' = [made |-> TRUE, url |-> body.url.str]
          /\ fetches' = fetches + 1
          /\ linkResponse' = NoResponse
          /\ linkPc' = "fetching"
  /\ UNCHANGED outsideLink

\* the outbound fetch settles: the metadata is returned, or the catch block answers
FetchLinkSettle(outcome) ==
  /\ linkPc = "fetching"
  /\ linkResponse' = IF outcome = "ok" THEN [status |-> 200, error |-> "none"]
                     ELSE [status |-> catchStatus(outcome), error |-> "message"]
  /\ linkPc' = "done"
  /\ UNCHANGED <<linkRequest, linkFetch, fetches>>
  /\ UNCHANGED outsideLink

InitLink ==
  /\ SentimentIdle
  /\ ChatIdle
  /\ FilesIdle
  /\ LinkIdle
  /\ CourtIdle
  /\ PreviewIdle
  /\ TypewriterIdle
  /\ LlmIdle
  /\ WarmupIdle
  /\ SpriteIdle

NextLink ==
  \/ \E body \in LinkBodies : FetchLinkPost(body)
  \/ \E outcome \in FetchOutcomes : FetchLinkSettle(outcome)

SpecLink == InitLink /\ [][NextLink]_vars

(* The request's url is a non-empty string that parses as a URL of protocol *)
(* http: or https:.                                                          *)
HttpUrlGiven ==
  /\ linkRequest.url.kind = "string"
  /\ linkRequest.url.str # <<>>
  /\ parseUrl(linkRequest.url.str).ok
  /\ parseUrl(linkRequest.url.str).protocol \in {HttpProtocol, HttpsProtocol}

LinkHandled == linkPc \in {"fetching", "done"}

----------------------------------------------------------------------------
(* Courtroom: handleSendMessage, handlePause and the callbacks they leave   *)
(* behind.  A user event or a callback runs to its end (or to its await) in *)
(* one step.  Timers carry no time: of the pending timers any may run next, *)
(* except that the chunks of one answer run in their order.                 *)

MaxSends == 2
MaxChunks == 2

\* predefined.mood of a quick question, and the talking moods of spriteStateToMood
PredefinedMood == "PRESENTING"
TalkingMoods == {"CONFIDENT", "SERIOUS"}

\* the answers of POST /api/my-lawyer/chat as the client reads them
ApiResponses ==
  {[ok |-> TRUE, isObjection |-> o, chunks |-> c, talkingMood |-> m] :
     o \in BOOLEAN, c \in 0..MaxChunks, m \in TalkingMoods}
    \cup {[ok |-> FALSE, isObjection |-> FALSE, chunks |-> 0, talkingMood |-> "THINKING"]}

timerId(kind, req, index) == [kind |-> kind, req |-> req, index |-> index]

timer(kind, req, index, m) == [id |-> timerId(kind, req, index), mood |-> m]

\* clearTimeout(ref.current)
clearTimeout(ts, ref) == {t \in ts : t.id # ref}

userMessage(req) == [isUser |-> TRUE, req |-> req]
aiMessage(req) == [isUser |-> FALSE, req |-> req]

\* handleSendMessage to its return (predefined answer) or to `await fetch(...)`;
\* predefined: PREDEFINED_ANSWERS[query] exists and no context is attached
handleSendMessage(predefined) ==
  /\ ~isLoading
  /\ sent < MaxSends
  /\ sent' = sent + 1
  /\ moodResetTimeout' = NoTimer
  /\ objectionTimeout' = NoTimer
  /\ isPaused' = FALSE
  /\ messages' = Append(messages, userMessage(sent + 1))
  /\ spriteMood' = "THINKING"
  /\ isLoading' = TRUE
  /\ LET kept == clearTimeout(clearTimeout(timers, moodResetTimeout), objectionTimeout)
     IN  IF predefined
         THEN /\ timers' = kept \cup {timer("predefined", sent + 1, 0, PredefinedMood)}
              /\ UNCHANGED <<abortController, pendingFetch>>
         ELSE /\ timers' = kept
              /\ abortController' = sent + 1
              /\ pendingFetch' = pendingFetch \cup {sent + 1}
  /\ actor' = 0
  /\ UNCHANGED <<showObjection, paused>>
  /\ UNCHANGED outsideCourt

\* handlePause (the pause button shows while isLoading and not isPaused); an
\* aborted fetch rejects with AbortError, the catch block returns and the
\* finally block sets isLoading to false again
handlePause ==
  /\ isLoading
  /\ ~isPaused
  /\ pendingFetch' = pendingFetch \ {abortController}
  /\ abortController' = 0
  /\ isLoading' = FALSE
  /\ isPaused' = TRUE
  /\ spriteMood' = "IDLE"
  /\ paused' = paused \cup {sent}
  /\ actor' = 0
  /\ UNCHANGED <<messages, showObjection, moodResetTimeout, objectionTimeout, timers, sent>>
  /\ UNCHANGED outsideCourt

\* the 600 ms callback of a predefined answer
predefinedTimeout(t) ==
  /\ t \in timers
  /\ t.id.kind = "predefined"
  /\ spriteMood' = t.mood
  /\ messages' = Append(messages, aiMessage(t.id.req))
  /\ isLoading' = FALSE
  /\ moodResetTimeout' = timerId("moodReset", t.id.req, 0)
  /\ timers' = (timers \ {t}) \cup {timer("moodReset", t.id.req, 0, "IDLE")}
  /\ actor' = t.id.req
  /\ UNCHANGED <<isPaused, showObjection, abortController, objectionTimeout, pendingFetch,
                 sent, paused>>
  /\ UNCHANGED outsideCourt

chunkTimers(req, n) == {timer("chunk", req, i, "none") : i \in 1..n}

\* handleSendMessage after `await fetch(...)` and `await response.json()`:
\* the answer, or the catch block; then the finally block
fetchSettles(req, data) ==
  /\ req \in pendingFetch
  /\ pendingFetch' = pendingFetch \ {req}
  /\ isLoading' = FALSE
  /\ actor' = req
  /\ IF ~data.ok
     THEN /\ spriteMood' = "THINKING"
          /\ messages' = Append(messages, aiMessage(req))
          /\ UNCHANGED <<showObjection, objectionTimeout, moodResetTimeout, timers>>
     ELSE LET objection == IF data.isObjection
                           THEN {timer("objection", req, 0, data.talkingMood)} ELSE {}
          IN  /\ spriteMood' = IF data.isObjection THEN "OBJECTING" ELSE data.talkingMood
              /\ showObjection' = (data.isObjection \/ showObjection)
              /\ objectionTimeout' = IF data.isObjection THEN timerId("objection", req, 0)
                                     ELSE objectionTimeout
              /\ IF data.chunks > 0
                 THEN /\ timers' = timers \cup objection \cup chunkTimers(req, data.chunks)
                      /\ UNCHANGED <<messages, moodResetTimeout>>
                 ELSE /\ messages' = Append(messages, aiMessage(req))
                      /\ moodResetTimeout' = timerId("moodReset", req, 0)
                      /\ timers' = timers \cup objection
                                     \cup {timer("moodReset", req, 0, "IDLE")}
  /\ UNCHANGED <<isPaused, abortController, sent, paused>>
  /\ UNCHANGED outsideCourt

\* the callback of one chunk; the last chunk sets the reading timeout
chunkTimeout(t) ==
  /\ t \in timers
  /\ t.id.kind = "chunk"
  /\ \A u \in timers : u.id.kind = "chunk" /\ u.id.req = t.id.req => u.id.index >= t.id.index
  /\ messages' = Append(messages, aiMessage(t.id.req))
  /\ IF \E u \in timers : u.id.kind = "chunk" /\ u.id.req = t.id.req /\ u.id.index > t.id.index
     THEN /\ timers' = timers \ {t}
          /\ UNCHANGED moodResetTimeout
     ELSE /\ timers' = (timers \ {t}) \cup {timer("moodReset", t.id.req, 0, "IDLE")}
          /\ moodResetTimeout' = timerId("moodReset", t.id.req, 0)
  /\ actor' = t.id.req
  /\ UNCHANGED <<spriteMood, isLoading, isPaused, showObjection, abortController,
                 objectionTimeout, pendingFetch, sent, paused>>
  /\ UNCHANGED outsideCourt

\* the 1500 ms callback: the overlay is hidden and the talking mood shown
objectionTimeoutFires(t) ==
  /\ t \in timers
  /\ t.id.kind = "objection"
  /\ showObjection' = FALSE
  /\ spriteMood' = t.mood
  /\ timers' = timers \ {t}
  /\ actor' = t.id.req
  /\ UNCHANGED <<messages, isLoading, isPaused, abortController, moodResetTimeout,
                 objectionTimeout, pendingFetch, sent, paused>>
  /\ UNCHANGED outsideCourt

\* the reading timeout: () => setMood("IDLE")
moodResetTimeoutFires(t) ==
  /\ t \in timers
  /\ t.id.kind = "moodReset"
  /\ spriteMood' = t.mood
  /\ timers' = timers \ {t}
  /\ actor' = t.id.req
  /\ UNCHANGED <<messages, isLoading, isPaused, showObjection, abortController,
                 moodResetTimeout, objectionTimeout, pendingFetch, sent, paused>>
  /\ UNCHANGED outsideCourt

TimerRuns ==
  \E t \in timers :
    \/ predefinedTimeout(t)
    \/ chunkTimeout(t)
    \/ objectionTimeoutFires(t)
    \/ moodResetTimeoutFires(t)

FetchSettles == \E req \in pendingFetch : \E data \in ApiResponses : fetchSettles(req, data)

InitCourt ==
  /\ SentimentIdle
  /\ ChatIdle
  /\ FilesIdle
  /\ LinkIdle
  /\ CourtIdle
  /\ PreviewIdle
  /\ TypewriterIdle
  /\ LlmIdle
  /\ WarmupIdle
  /\ SpriteIdle

NextCourt ==
  \/ \E predefined \in BOOLEAN : handleSendMessage(predefined)
  \/ handlePause
  \/ TimerRuns
  \/ FetchSettles

SpecCourt == InitCourt /\ [][NextCourt]_vars

(* The event loop runs every due timer, and a fetch settles. *)
SpecCourtFair == SpecCourt /\ WF_vars(TimerRuns) /\ WF_vars(FetchSettles)

(* C19: once a request is paused, no callback of that request appends an     *)
(* answer, changes the mood or changes isLoading; for requests sent to the   *)
(* chat API and for predefined answers delivered by the 600 ms timer.        *)
PausedRequestIsInert ==
  [][actor' \in paused => UNCHANGED <<messages, spriteMood, isLoading>>]_vars

(* C20: whenever the objection overlay is shown it is eventually hidden      *)
(* again (by the callback that also sets the talking mood), whatever the     *)
(* user does next.                                                           *)
ObjectionEventuallyHidden == showObjection ~> ~showObjection

----------------------------------------------------------------------------
(* useSpriteAnimation (hooks/my-lawyer/useSpriteAnimation).  The component *)
(* is rendered with a sprite prop; a change of sprite.src runs the cleanup *)
(* of the previous effect and then the effect, in the same commit.  The    *)
(* transition timeout is untimed: it runs at some later moment unless it   *)
(* is cleared first.                                                       *)

MaxSpriteChanges == 5

\* the value `currentSprite: nextSprite ?? currentSprite` the hook returns
returnedSprite == IF nextSprite # NoSprite THEN nextSprite ELSE currentSprite

\* a render with a new sprite.src: cleanup (clearTransitionTimeout), then the effect
spriteChanged(src) ==
  /\ spriteChanges < MaxSpriteChanges
  /\ src # sprite
  /\ sprite' = src
  /\ spriteChanges' = spriteChanges + 1
  /\ IF src = previousSprite
       THEN /\ transitionTimeout' = NoSprite
            /\ UNCHANGED <<isTransitioning, nextSprite, opacity>>
       ELSE /\ isTransitioning' = TRUE
            /\ nextSprite' = src
            /\ opacity' = 0
            /\ transitionTimeout' = src
  /\ UNCHANGED <<currentSprite, previousSprite>>
  /\ UNCHANGED outsideSprite

\* the callback of setTimeout(..., transitionDuration)
transitionTimeoutFires ==
  /\ transitionTimeout # NoSprite
  /\ currentSprite' = transitionTimeout
  /\ nextSprite' = NoSprite
  /\ opacity' = 1
  /\ isTransitioning' = FALSE
  /\ previousSprite' = transitionTimeout
  /\ transitionTimeout' = NoSprite
  /\ UNCHANGED <<sprite, spriteChanges>>
  /\ UNCHANGED outsideSprite

InitSprite ==
  /\ SentimentIdle
  /\ ChatIdle
  /\ FilesIdle
  /\ LinkIdle
  /\ CourtIdle
  /\ PreviewIdle
  /\ TypewriterIdle
  /\ LlmIdle
  /\ WarmupIdle
  /\ \E src \in Sprites : mounted(src)

NextSprite ==
  \/ \E src \in Sprites : spriteChanged(src)
  \/ transitionTimeoutFires

SpecSprite == InitSprite /\ [][NextSprite]_vars

\* a timeout that stays set runs
SpecSpriteFair == SpecSprite /\ WF_vars(transitionTimeoutFires)

Settled == returnedSprite = sprite /\ ~isTransitioning /\ opacity = 1

\* C21: once the sprite prop stops changing, the hook eventually reports
\* currentSprite equal to the latest sprite.src with isTransitioning false and
\* opacity 1, and stays so
SpriteAlwaysSettles == <>[]Settled

----------------------------------------------------------------------------
(* LLMWarmup (components/my-lawyer/LLMWarmup), rendered by the root layout. *)
(* sessionStorage lives as long as the browser session and survives a page  *)
(* load; timers and suspended async functions belong to one page.           *)

MaxWarmupMounts == 4

FetchResults == {"ok", "HTTP error", "network failure"}

\* the effect of the first render
warmupMount ==
  /\ ~warmupMounted
  /\ warmupMounts < MaxWarmupMounts
  /\ warmupMounted' = TRUE
  /\ warmupMounts' = warmupMounts + 1
  /\ warmupTimer' = ~warmupDone
  /\ UNCHANGED <<warmupDone, warmupAwaiting, warmupSent>>
  /\ UNCHANGED outsideWarmup

\* the cleanup of the effect: clearTimeout(timer)
warmupUnmount ==
  /\ warmupMounted
  /\ warmupMounted' = FALSE
  /\ warmupTimer' = FALSE
  /\ UNCHANGED <<warmupDone, warmupAwaiting, warmupSent, warmupMounts>>
  /\ UNCHANGED outsideWarmup

\* the page is left or loaded again: its timers and suspended calls are gone
pageUnload ==
  /\ warmupMounted
  /\ warmupMounted' = FALSE
  /\ warmupTimer' = FALSE
  /\ warmupAwaiting' = 0
  /\ UNCHANGED <<warmupDone, warmupSent, warmupMounts>>
  /\ UNCHANGED outsideWarmup

\* warmupLLM up to `await fetch`
warmupLLM ==
  /\ warmupTimer
  /\ warmupTimer' = FALSE
  /\ warmupSent' = warmupSent + 1
  /\ warmupAwaiting' = warmupAwaiting + 1
  /\ UNCHANGED <<warmupDone, warmupMounted, warmupMounts>>
  /\ UNCHANGED outsideWarmup

\* warmupLLM after `await fetch`: fetch rejects on a network failure only
warmupSettles(outcome) ==
  /\ warmupAwaiting > 0
  /\ warmupAwaiting' = warmupAwaiting - 1
  /\ warmupDone' = IF outcome = "network failure" THEN warmupDone ELSE TRUE
  /\ UNCHANGED <<warmupMounted, warmupTimer, warmupSent, warmupMounts>>
  /\ UNCHANGED outsideWarmup

InitWarmup ==
  /\ SentimentIdle
  /\ ChatIdle
  /\ FilesIdle
  /\ LinkIdle
  /\ CourtIdle
  /\ PreviewIdle
  /\ TypewriterIdle
  /\ LlmIdle
  /\ SpriteIdle
  /\ WarmupIdle

NextWarmup ==
  \/ warmupMount
  \/ warmupUnmount
  \/ pageUnload
  \/ warmupLLM
  \/ \E outcome \in FetchResults : warmupSettles(outcome)

SpecWarmup == InitWarmup /\ [][NextWarmup]_vars

\* C22: at most one warmup request is sent to /api/my-lawyer/warmup per
\* browser session
AtMostOneWarmup == warmupSent <= 1

----------------------------------------------------------------------------
(* C23, C24: the answers of POST /api/my-lawyer/chat when the hosted model  *)
(* cannot be called                                                         *)

ValidQuery == request.parsed /\ ~queryRejected(request.query)

\* C23: when NVIDIA_API_KEY is not set (and the data directory is there), a
\* request with a valid query is answered with status 500 and the
\* credentials error, not the technical-difficulties error
MissingKeyReportsCredentials ==
  postPc = "done" /\ ValidQuery /\ ~apiKey /\ dataFiles # "no data dir" =>
    response = [status |-> 500, error |-> "credentials"]

\* the call of the hosted model failed and the answer was delivered
LlmCallFailed == postPc = "done" /\ response.status = 200 /\ llmResult = LlmFailed

\* C24: when the call of the hosted model fails, the response delivered is
\* the technical-difficulties fallback with mood THINKING and isObjection
\* false
FailureNeverObjects ==
  LlmCallFailed =>
    reply = [text |-> TechnicalText, mood |-> "THINKING", isObjection |-> FALSE]

----------------------------------------------------------------------------
(* chat(): the array `messages` built from the system prompt, the history  *)
(* and the current query (lib/my-lawyer/agent).  The conversation grows    *)
(* message by message; chat() is then called with it.                      *)

MaxLlmHist == 7

HISTORY_LIMIT == 6

SystemPromptText == <<"Y","o","u"," ","a","r","e"," ","M","i","l","e","s"," ","E","d","g","e","w","o","r","t","h",".">>

EvidenceText == <<"[","B","I","O","]">>

AttachedTexts == {<<>>, <<"n","o","t","e","s">>}

QueryTypes == {"brief", "default", "detailed"}

\* variant: the whole history is sent
sliceAll(array, begin) == array

\* Array.prototype.slice(begin) with begin < 0: the last -begin elements
slice(array, begin) ==
  LET from == MathMax(Len(array) + begin, 0) IN SubSeq(array, from + 1, Len(array))

\* the template string userMessage; the fixed requirement lines after the
\* one that depends on queryType are left out
userMessageText(query, evidence, attachedContext, queryType) ==
  <<"E","V","I","D","E","N","C","E"," ","F","R","O","M"," ","H","E","C","T","O","R","'","S"," ","F","I","L","E","S",":","\n">> \o evidence
  \o (IF attachedContext # <<>>
        THEN <<"\n","\n","U","S","E","R","-","P","R","O","V","I","D","E","D"," ","C","O","N","T","E","N","T"," ","(","f","r","o","m"," ","u","p","l","o","a","d","e","d"," ","f","i","l","e","s"," ","o","r"," ","l","i","n","k","s",")",":","\n">> \o attachedContext
        ELSE <<>>)
  \o <<"\n","U","S","E","R"," ","Q","U","E","S","T","I","O","N",":"," ">> \o query
  \o <<"\n","\n","R","E","S","P","O","N","S","E"," ","R","E","Q","U","I","R","E","M","E","N","T","S",":","\n","-"," ","U","s","e"," ">>
  \o (IF queryType = "brief" THEN <<"K","e","e","p"," ","r","e","s","p","o","n","s","e"," ","U","N","D","E","R"," ","5","0"," ","W","O","R","D","S",".">>
      ELSE IF queryType = "detailed" THEN <<"P","r","o","v","i","d","e"," ","a"," ","C","O","M","P","R","E","H","E","N","S","I","V","E",","," ","D","E","T","A","I","L","E","D"," ","r","e","s","p","o","n","s","e",".">>
      ELSE <<"K","e","e","p"," ","r","e","s","p","o","n","s","e"," ","c","o","n","c","i","s","e"," ","(","a","p","p","r","o","x"," ","1","0","0"," ","w","o","r","d","s",")",".">>)

RECURSIVE pushAll(_, _)
\* for (const msg of recentHistory) messages.push({role, content})
pushAll(array, recentHistory) ==
  IF recentHistory = <<>> THEN array
  ELSE pushAll(Append(array, [role |-> Head(recentHistory).role,
                              content |-> Head(recentHistory).content]),
               Tail(recentHistory))

buildMessages(query, systemPrompt, hist, attachedContext, queryType) ==
  LET recentHistory == slice(hist, -HISTORY_LIMIT)
      withHistory == pushAll(<<[role |-> "system", content |-> systemPrompt]>>, recentHistory)
  IN Append(withHistory,
            [role |-> "user",
             content |-> userMessageText(query, EvidenceText, attachedContext, queryType)])

\* one more message of the conversation
llmAppend(role, content) ==
  /\ llmMessages = <<>>
  /\ Len(llmHistory) < MaxLlmHist
  /\ llmHistory' = Append(llmHistory, [role |-> role, content |-> content])
  /\ UNCHANGED <<llmQuery, llmMessages>>
  /\ UNCHANGED outsideLlm

\* chat(query, systemPrompt, history, attachedContext, queryType) up to axios.post
llmChat(query, attachedContext, queryType) ==
  /\ llmMessages = <<>>
  /\ llmQuery' = query
  /\ llmMessages' = buildMessages(query, SystemPromptText, llmHistory, attachedContext, queryType)
  /\ UNCHANGED llmHistory
  /\ UNCHANGED outsideLlm

InitLlm ==
  /\ SentimentIdle
  /\ ChatIdle
  /\ FilesIdle
  /\ LinkIdle
  /\ CourtIdle
  /\ PreviewIdle
  /\ TypewriterIdle
  /\ SpriteIdle
  /\ WarmupIdle
  /\ LlmIdle

NextLlm ==
  \/ \E role \in Roles, content \in {TextBad, TextThanks} : llmAppend(role, content)
  \/ \E query \in {TextBad, TextThanks}, attachedContext \in AttachedTexts, queryType \in QueryTypes :
       llmChat(query, attachedContext, queryType)

SpecLlm == InitLlm /\ [][NextLlm]_vars

\* the number of history messages sent
sentCount == MathMin(HISTORY_LIMIT, Len(llmHistory))

\* C25: the list sent is the system prompt, then the last min(6, |history|)
\* history messages in their order with their roles, then one final user
\* message that contains the current query; older messages are not sent
MessagesAsDocumented ==
  llmMessages # <<>> =>
    /\ Len(llmMessages) = sentCount + 2
    /\ llmMessages[1] = [role |-> "system", content |-> SystemPromptText]
    /\ \A k \in 1..sentCount :
         llmMessages[1 + k] = llmHistory[Len(llmHistory) - sentCount + k]
    /\ llmMessages[sentCount + 2].role = "user"
    /\ includes(llmMessages[sentCount + 2].content, llmQuery)

\* chat() was called with more than six earlier messages
OlderMessagesDropped == llmMessages # <<>> /\ Len(llmHistory) > HISTORY_LIMIT

----------------------------------------------------------------------------
(* useTypewriter (hooks/my-lawyer/useTypewriter).  A render returns the     *)
(* state as it is; the effect of a render whose text changed runs after the *)
(* render is committed, and before any later render or interval callback    *)
(* changes the state (React flushes pending effects first, and the resets   *)
(* of the effect are queued last).                                          *)

MaxTextChanges == 3

TypedTexts == {<<>>, <<"N","o">>, <<"N","o","w">>, <<"O","k">>}

\* a render with another text: the hook returns the state of the previous text
textChanged(t) ==
  /\ ~effectPending
  /\ textChanges < MaxTextChanges
  /\ t # typed
  /\ typed' = t
  /\ textChanges' = textChanges + 1
  /\ effectPending' = TRUE
  /\ UNCHANGED <<displayText, isComplete, interval>>
  /\ UNCHANGED outsideTypewriter

\* the cleanup of the previous effect (clearInterval) and the effect
typewriterEffect ==
  /\ effectPending
  /\ effectPending' = FALSE
  /\ displayText' = <<>>
  /\ isComplete' = (typed = <<>>)
  /\ interval' = IF typed = <<>> THEN NoInterval
                 ELSE [active |-> TRUE, text |-> typed, currentIndex |-> 0]
  /\ UNCHANGED <<typed, textChanges>>
  /\ UNCHANGED outsideTypewriter

\* the callback of setInterval(..., speed)
intervalFires ==
  /\ interval.active
  /\ ~effectPending
  /\ IF interval.currentIndex < Len(interval.text)
       THEN /\ displayText' = SubSeq(interval.text, 1, interval.currentIndex + 1)
            /\ interval' = [interval EXCEPT !.currentIndex = @ + 1]
            /\ UNCHANGED isComplete
       ELSE /\ isComplete' = TRUE
            /\ interval' = NoInterval
            /\ UNCHANGED displayText
  /\ UNCHANGED <<typed, effectPending, textChanges>>
  /\ UNCHANGED outsideTypewriter

InitTypewriter ==
  /\ SentimentIdle
  /\ ChatIdle
  /\ FilesIdle
  /\ LinkIdle
  /\ CourtIdle
  /\ PreviewIdle
  /\ SpriteIdle
  /\ WarmupIdle
  /\ LlmIdle
  /\ \E t \in TypedTexts : firstRender(t)

NextTypewriter ==
  \/ \E t \in TypedTexts : textChanged(t)
  \/ typewriterEffect
  \/ intervalFires

SpecTypewriter == InitTypewriter /\ [][NextTypewriter]_vars

isPrefix(p, t) == Len(p) <= Len(t) /\ SubSeq(t, 1, Len(p)) = p

\* C26: in every state the hook returns, isComplete is true only when
\* displayText is the whole current text, and displayText is a prefix of the
\* current text
TypewriterShowsCurrentText ==
  /\ isComplete => displayText = typed
  /\ isPrefix(displayText, typed)

----------------------------------------------------------------------------
(* ChatBox: the link preview of the input (components/my-lawyer/Courtroom,  *)
(* lib/my-lawyer/agent detectUrls and fetchLinkPreview).  No file is        *)
(* attached; `disabled` is the prop isLoading.                              *)

MaxInputChanges == 3

\* the characters the class of the URL pattern excludes: white space and
\* < > " { } | \ ^ [ ] (the backquote, excluded too, occurs in no input here)
UrlExcludedChars ==
  WhitespaceChars \cup {"<", ">", "\"", "{", "}", "|", "\\", "^", "[", "]"}

startsAt(s, p, w) == p + Len(w) - 1 <= Len(s) /\ SubSeq(s, p, p + Len(w) - 1) = w

\* length of https?:\/\/ at p, 0 when it does not stand there
urlSchemeLen(s, p) ==
  IF startsAt(s, p, <<"h","t","t","p",":","/","/">>) THEN 7
  ELSE IF startsAt(s, p, <<"h","t","t","p","s",":","/","/">>) THEN 8
  ELSE 0

RECURSIVE urlRunEnd(_, _)
\* index of the last character of the longest run of the class from k, k - 1 if none
urlRunEnd(s, k) ==
  IF k > Len(s) \/ s[k] \in UrlExcludedChars THEN k - 1 ELSE urlRunEnd(s, k + 1)

urlMatchesAt(s, p) ==
  urlSchemeLen(s, p) > 0 /\ urlRunEnd(s, p + urlSchemeLen(s, p)) >= p + urlSchemeLen(s, p)

\* detectUrls(value)[0] || null
firstUrl(s) ==
  IF \E p \in 1..Len(s) : urlMatchesAt(s, p)
    THEN LET p == CHOOSE q \in 1..Len(s) :
                    urlMatchesAt(s, q) /\ \A r \in 1..(q - 1) : ~urlMatchesAt(s, r)
         IN SubSeq(s, p, urlRunEnd(s, p + urlSchemeLen(s, p)))
    ELSE NoUrl

InputValues ==
  { <<>>, <<"h","i">>, <<"h","t","t","p",":","/","/","a",".","i","o">>, <<"h","t","t","p","s",":","/","/","b",".","i","o">>,
    <<"s","e","e"," ","h","t","t","p",":","/","/","a",".","i","o"," ","n","o","w">>, <<"h","t","t","p",":","/","/">> }

PreviewResults == {"ready", "error"}

otherThanFilesAndPreview ==
  <<sentimentVars, chatVars, linkVars, courtVars, spriteVars, warmupVars, llmVars, typewriterVars>>

\* a change event of the input
handleInputChange(value) ==
  /\ ~disabled
  /\ inputChanges < MaxInputChanges
  /\ value # inputValue
  /\ inputValue' = value
  /\ inputChanges' = inputChanges + 1
  /\ LET newUrl == firstUrl(value) IN
       IF newUrl # NoUrl /\ newUrl # detectedUrl
         THEN /\ detectedUrl' = newUrl
              /\ linkPreview' = [url |-> newUrl, status |-> "pending"]
              /\ linkFetchTimeout' = newUrl
         ELSE IF newUrl = NoUrl /\ detectedUrl # NoUrl
           THEN /\ detectedUrl' = NoUrl
                /\ linkPreview' = NoPreview
                /\ linkFetchTimeout' = NoUrl
           ELSE /\ linkFetchTimeout' = NoUrl
                /\ UNCHANGED <<detectedUrl, linkPreview>>
  /\ UNCHANGED <<previewFetches, submitted>>
  /\ UNCHANGED outsidePreview

\* the callback of setTimeout(..., 500) up to `await fetchLinkPreview(newUrl)`
linkFetchTimeoutFires ==
  /\ linkFetchTimeout # NoUrl
  /\ linkPreview' = IF linkPreview # NoPreview
                      THEN [linkPreview EXCEPT !.status = "fetching"]
                      ELSE NoPreview
  /\ previewFetches' = previewFetches \cup {[url |-> linkFetchTimeout, id |-> inputChanges]}
  /\ linkFetchTimeout' = NoUrl
  /\ UNCHANGED <<inputValue, detectedUrl, submitted, inputChanges>>
  /\ UNCHANGED outsidePreview

\* fetchLinkPreview returns and the callback goes on with setLinkPreview(preview)
previewSettles(f, outcome) ==
  /\ f \in previewFetches
  /\ previewFetches' = previewFetches \ {f}
  /\ linkPreview' = [url |-> f.url, status |-> outcome]
  /\ UNCHANGED <<inputValue, detectedUrl, linkFetchTimeout, submitted, inputChanges>>
  /\ UNCHANGED outsidePreview

\* the remove button of LinkPreviewCard, rendered unless the status is pending
removeLinkPreview ==
  /\ linkPreview # NoPreview
  /\ linkPreview.status # "pending"
  /\ linkPreview' = NoPreview
  /\ detectedUrl' = NoUrl
  /\ UNCHANGED <<inputValue, linkFetchTimeout, previewFetches, submitted, inputChanges>>
  /\ UNCHANGED outsidePreview

\* handleSubmit with no file attached: the content of a ready preview is the context
handleSubmitInput ==
  /\ ~disabled
  /\ attachments = <<>>
  /\ trim(inputValue) # <<>> \/ linkPreview # NoPreview
  /\ submitted' = [sent |-> TRUE,
                   text |-> trim(inputValue),
                   context |-> IF linkPreview.status = "ready" THEN linkPreview.url ELSE NoUrl]
  /\ inputValue' = <<>>
  /\ linkPreview' = NoPreview
  /\ detectedUrl' = NoUrl
  /\ disabled' = TRUE
  /\ UNCHANGED <<linkFetchTimeout, previewFetches, inputChanges>>
  /\ UNCHANGED <<attachments, inFlight, started, validation>>
  /\ UNCHANGED otherThanFilesAndPreview

InitPreview ==
  /\ SentimentIdle
  /\ ChatIdle
  /\ FilesIdle
  /\ LinkIdle
  /\ CourtIdle
  /\ SpriteIdle
  /\ WarmupIdle
  /\ LlmIdle
  /\ TypewriterIdle
  /\ PreviewIdle

NextPreview ==
  \/ \E value \in InputValues : handleInputChange(value)
  \/ linkFetchTimeoutFires
  \/ \E f \in previewFetches, outcome \in PreviewResults : previewSettles(f, outcome)
  \/ removeLinkPreview
  \/ handleSubmitInput
  \/ loadingEnds

SpecPreview == InitPreview /\ [][NextPreview]_vars

\* C27: a link preview held by the input is the preview of the URL detected
\* in the input, and the link context sent with a message is the content
\* fetched for the URL of that message
PreviewIsOfDetectedUrl ==
  /\ linkPreview # NoPreview => linkPreview.url = detectedUrl
  /\ submitted.context # NoUrl => submitted.context = firstUrl(submitted.text)

====
